---- MODULE Spec2Model ----
(***************************************************************************)
(* Model of relentless/optimize/method.py: Optimizer.has_converged,        *)
(* LineSearch.find and SteepestDescent / FixedStepDescent.optimize,        *)
(* driven by the QuadraticObjective of tests/optimize/test_objective.py,   *)
(* and of relentless/potential.py: PairPotential.__call__, LJPotential     *)
(* (energy, force) and Tabulator.regularize.                               *)
(*                                                                         *)
(* Numbers.  The code computes in IEEE doubles.  The model computes in     *)
(* exact rationals [n, d] in lowest terms with d > 0, extended by the      *)
(* three special doubles the code can produce: d = 0 with n = 1 is +inf,   *)
(* n = -1 is -inf and n = 0 is NaN (numpy's 0/0).  Rounding is not         *)
(* modelled there; the last section (SpecFloat) follows optimize with a    *)
(* line search in doubles m * 2^e, where the write of the update rounds.   *)
(*                                                                         *)
(* Design variables are unbounded (DesignVariable(value=...) as in the     *)
(* tests), so a write to x.value stores the value written.                 *)
(***************************************************************************)
EXTENDS Integers, Sequences, FiniteSets, TLC

VARIABLES
    objective,     \* the ObjectiveFunction: its tuple of design variables
    value,         \* x.value of every design variable of the objective
    optimizer,     \* the Optimizer object: abs_tol, max_iter, step_size, scale, line_search
    opt,           \* frame of a call of optimize
    ls,            \* frame of a call of LineSearch.find
    hc,            \* frame of a direct call of has_converged
    computeCalls,  \* number of calls of objective.compute so far
    pot,           \* a pair potential, the separations it is evaluated at, the results
    tab,           \* a Tabulator, the table handed to regularize, the table returned
    cm,            \* a CoefficientMatrix and the frame of a call of perturb
    comm,          \* the ranks of a Communicator, each in a call of bcast_numpy
    cfg            \* a LineSearch and a SteepestDescent whose properties are assigned

vars == <<objective, value, optimizer, opt, ls, hc, computeCalls, pot, tab, cm, comm, cfg>>

optvars == <<objective, value, optimizer, opt, ls, hc, computeCalls>>

(***************************************************************************)
(* Bounds of the model.                                                    *)
(***************************************************************************)
MaxX == 2          \* design variables start at integers in -MaxX..MaxX
MaxTol == 2        \* absolute tolerances are integers in 0..MaxTol
MaxIter == 2       \* max_iter of the optimizer and of the line search in 1..MaxIter

(***************************************************************************)
(* Arithmetic on doubles, as extended rationals.                           *)
(***************************************************************************)
Abs(i) == IF i < 0 THEN -i ELSE i

Sign(i) == IF i < 0 THEN -1 ELSE IF i > 0 THEN 1 ELSE 0

RECURSIVE GCD(_, _)
GCD(a, b) == IF b = 0 THEN a ELSE GCD(b, a % b)

\* the double n/d: lowest terms; x/0 is +-inf and 0/0 is NaN
Q(n, d) ==
    IF d = 0 THEN [n |-> Sign(n), d |-> 0]
    ELSE LET g == GCD(Abs(n), Abs(d))
         IN  [n |-> Sign(d) * Sign(n) * (Abs(n) \div g), d |-> Abs(d) \div g]

I(i) == [n |-> i, d |-> 1]

NaN == [n |-> 0, d |-> 0]

Inf == [n |-> 1, d |-> 0]

IsNaN(a) == a.d = 0 /\ a.n = 0

\* the common factor of the denominators is taken out before multiplying
RAdd(a, b) ==
    IF a.d = 0 /\ b.d = 0 THEN (IF a.n = b.n THEN a ELSE NaN)
    ELSE IF a.d = 0 THEN a
    ELSE IF b.d = 0 THEN b
    ELSE LET g == GCD(a.d, b.d)
         IN  Q(a.n * (b.d \div g) + b.n * (a.d \div g), (a.d \div g) * b.d)

RNeg(a) == [n |-> -a.n, d |-> a.d]

RSub(a, b) == RAdd(a, RNeg(b))

\* numerators and denominators are reduced crosswise before multiplying
RMul(a, b) ==
    IF a.d = 0 \/ b.d = 0 THEN Q(a.n * b.n, 0)
    ELSE LET g1 == GCD(Abs(a.n), b.d)
             g2 == GCD(Abs(b.n), a.d)
             h1 == IF g1 = 0 THEN 1 ELSE g1
             h2 == IF g2 = 0 THEN 1 ELSE g2
         IN  Q((a.n \div h1) * (b.n \div h2), (a.d \div h2) * (b.d \div h1))

\* a/b is a times the reciprocal of b; x/0 is +-inf, 0/0 and inf/inf are NaN
RDiv(a, b) ==
    IF b.d = 0 THEN (IF a.d = 0 THEN NaN ELSE Q(0, Abs(b.n)))
    ELSE IF b.n = 0 THEN Q(a.n, 0)
    ELSE RMul(a, [n |-> Sign(b.n) * b.d, d |-> Abs(b.n)])

RAbs(a) == [n |-> Abs(a.n), d |-> a.d]

\* comparisons of doubles: every comparison with NaN is false
RLt(a, b) ==
    /\ ~IsNaN(a)
    /\ ~IsNaN(b)
    /\ IF a.d = 0 /\ b.d = 0 THEN a.n < b.n
       ELSE IF a.d = 0 THEN a.n < 0
       ELSE IF b.d = 0 THEN b.n > 0
       ELSE LET g == GCD(a.d, b.d) IN a.n * (b.d \div g) < b.n * (a.d \div g)

RGt(a, b) == RLt(b, a)

REq(a, b) == ~IsNaN(a) /\ ~IsNaN(b) /\ a = b

RLe(a, b) == RLt(a, b) \/ REq(a, b)

RGe(a, b) == RLe(b, a)

(***************************************************************************)
(* KeyedArray: an array keyed on the design variables, held as a function  *)
(* on the set of keys; `keys` is the tuple that fixes the iteration order. *)
(***************************************************************************)
VarNames == <<"x", "y">>

KeySet(keys) == {keys[i] : i \in DOMAIN keys}

RECURSIVE DotFrom(_, _, _, _)
DotFrom(keys, a, b, i) ==
    IF i > Len(keys) THEN I(0)
    ELSE RAdd(RMul(a[keys[i]], b[keys[i]]), DotFrom(keys, a, b, i + 1))

\* a.dot(b)
Dot(keys, a, b) == DotFrom(keys, a, b, 1)

\* NormIsZero testing norm < 0, which no array satisfies
NormIsZero_negative(keys, a) == RLt(Dot(keys, a, a), I(0))

\* a.norm() == 0: the norm is the square root of a.dot(a)
NormIsZero(keys, a) == REq(Dot(keys, a, a), I(0))

\* a - b, elementwise
KSub(keys, a, b) == [k \in KeySet(keys) |-> RSub(a[k], b[k])]

PartialFns(S, T) == UNION {[D -> T] : D \in SUBSET S}

(***************************************************************************)
(* The objective function and its results.                                 *)
(***************************************************************************)
\* ObjectiveFunction.make_result: the gradient and a frozen copy of the design
\* variables' current values (the scalar value of the result is not recorded:
\* nothing in method.py reads it)
make_result(keys, grad, v) ==
    [keys |-> keys, gradient |-> grad,
     design_variables |-> [k \in KeySet(keys) |-> v[k]]]

\* QuadraticObjective.compute at the live values v: f = (x-1)^2, df/dx = 2(x-1),
\* summed over the design variables when there are several
compute(keys, v) ==
    LET dev == [k \in KeySet(keys) |-> RSub(v[k], I(1))]
    IN  make_result(keys, [k \in KeySet(keys) |-> RMul(I(2), dev[k])], v)

NoResult == [keys |-> <<>>, gradient |-> <<>>, design_variables |-> <<>>]

(***************************************************************************)
(* Optimizer.has_converged                                                 *)
(***************************************************************************)
\* self.abs_tol[x]: a dict gives the entry of x (KeyError when there is none), a
\* scalar is not subscriptable (TypeError) and is the tolerance itself
HasTol(abs_tol, x) == abs_tol.kind = "scalar" \/ x \in DOMAIN abs_tol.tol

TolOf(abs_tol, x) == IF abs_tol.kind = "scalar" THEN abs_tol.tol ELSE abs_tol.tol[x]

\* Exceeds with the comparison abs(grad) >= tol
Exceeds_ge(grad, tol) == RGe(RAbs(grad), tol)

\* the test of one design variable: abs(grad) > tol
Exceeds(grad, tol) == RGt(RAbs(grad), tol)

\* the loop over result.design_variables from position i on: "KeyError", "False"
\* at the first variable that decides, "True" when the loop runs out
RECURSIVE has_converged_from(_, _, _)
has_converged_from(abs_tol, result, i) ==
    IF i > Len(result.keys) THEN "True"
    ELSE LET x == result.keys[i]
         IN  IF ~HasTol(abs_tol, x) THEN "KeyError"
             ELSE IF Exceeds(result.gradient[x], TolOf(abs_tol, x)) THEN "False"
             ELSE has_converged_from(abs_tol, result, i + 1)

has_converged(abs_tol, result) == has_converged_from(abs_tol, result, 1)

(***************************************************************************)
(* Inputs.                                                                 *)
(***************************************************************************)
Keys1 == <<VarNames[1]>>

Keys2 == <<VarNames[1], VarNames[2]>>

\* the values a design variable starts at
Points(keys) == [KeySet(keys) -> {I(i) : i \in -MaxX..MaxX}]

\* valid abs_tol settings (non-negative): a scalar, or a dict on some of the variables
AbsTols(keys) ==
    {[kind |-> "scalar", tol |-> I(t)] : t \in 0..MaxTol}
    \cup {[kind |-> "dict", tol |-> f] : f \in PartialFns(KeySet(keys), {I(t) : t \in 0..MaxTol})}

NoLineSearch == [set |-> FALSE, rel_tol |-> I(0), max_iter |-> 0]

NoFrame == [pc |-> "none"]

(***************************************************************************)
(* A direct call of has_converged(result).                                 *)
(***************************************************************************)
\* gradients around the tolerances: below, equal to and above each of them
ConvGradients(keys) == [KeySet(keys) -> {I(g) : g \in -(MaxTol + 1)..(MaxTol + 1)}]

InitConv ==
    /\ \E keys \in {Keys1, Keys2} :
          /\ objective = [dvars |-> keys]
          /\ value = [k \in KeySet(keys) |-> I(0)]
          /\ \E a \in AbsTols(keys) :
                optimizer = [method |-> "SteepestDescent", abs_tol |-> a, max_iter |-> 1,
                             step_size |-> I(1), scale |-> [kind |-> "scalar", v |-> I(1)],
                             line_search |-> NoLineSearch]
          /\ \E g \in ConvGradients(keys) :
                hc = [pc |-> "call", result |-> make_result(keys, g, value), ret |-> "none"]
    /\ opt = NoFrame
    /\ ls = NoFrame
    /\ computeCalls = 0
    /\ pot = NoFrame
    /\ tab = NoFrame
    /\ cm = NoFrame
    /\ comm = NoFrame
    /\ cfg = NoFrame

HasConvergedCall ==
    /\ hc.pc = "call"
    /\ LET r == has_converged(optimizer.abs_tol, hc.result)
       IN  hc' = [hc EXCEPT !.pc = IF r = "KeyError" THEN "raised" ELSE "returned",
                            !.ret = r]
    /\ UNCHANGED <<objective, value, optimizer, opt, ls, computeCalls, pot, tab, cm, comm, cfg>>

NextConv == HasConvergedCall

SpecConv == InitConv /\ [][NextConv]_vars

(***************************************************************************)
(* LineSearch.find(objective, start, end).  The LineSearch object (rel_tol, *)
(* max_iter) is optimizer.line_search.                                     *)
(***************************************************************************)
\* target of a result along d: -d.dot(gradient)
Target(keys, d, result) == RNeg(Dot(keys, d, result.gradient))

\* the descent-direction test on the target at the start of the interval
NotDescent(t0) == RLt(t0, I(0))

\* AcceptEnd without the tolerance test
AcceptEnd_positive_only(t1, tol) == RGt(t1, I(0))

\* the maximum step is acceptable: targets[1] > 0 or abs(targets[1]) < tol
AcceptEnd(t1, tol) == RGt(t1, I(0)) \/ RLt(RAbs(t1), tol)

\* Interpolate taking the midpoint of the bracket
Interpolate_midpoint(steps, targets) == RDiv(RAdd(steps[1], steps[2]), I(2))

\* linear interpolation for the step size
Interpolate(steps, targets) ==
    RDiv(RSub(RMul(steps[1], targets[2]), RMul(steps[2], targets[1])),
         RSub(targets[2], targets[1]))

\* the loop condition: abs(new_target) >= tol and iter_num < max_iter
FindContinues(f, max_iter) == RGe(RAbs(f.new_target), f.tol) /\ f.iter_num < max_iter

\* the frame of a call that has not started
FindCall(caller, start, end) == [pc |-> "call", caller |-> caller, start |-> start, end |-> end]

\* lines 220-242: save the variables, compute the direction and the targets, raise,
\* accept the end point or set up the interpolation loop
FindEnterFrame(f, keys, v, rel_tol) ==
    LET ovars == v
        d == KSub(keys, f.end.design_variables, f.start.design_variables)
        targets == <<Target(keys, d, f.start), Target(keys, d, f.end)>>
        tol == RMul(rel_tol, RAbs(targets[1]))
        base == [pc |-> "raised", caller |-> f.caller, start |-> f.start, end |-> f.end,
                 ovars |-> ovars, d |-> d, targets |-> targets, tol |-> tol,
                 steps |-> <<I(0), I(1)>>, iter_num |-> 0, new_target |-> Inf,
                 new_res |-> targets[2], result |-> NoResult, err |-> "none"]
    IN  IF NormIsZero(keys, d)
            THEN [base EXCEPT !.err = "ValueError: start and end must be different"]
        ELSE IF NotDescent(targets[1])
            THEN [base EXCEPT !.err = "ValueError: must be a descent direction"]
        ELSE IF AcceptEnd(targets[2], tol)
            THEN [base EXCEPT !.pc = "restore", !.result = f.end]
        ELSE [base EXCEPT !.pc = "loop"]

FindEnter ==
    /\ ls.pc = "call"
    /\ ls' = FindEnterFrame(ls, objective.dvars, value, optimizer.line_search.rel_tol)
    /\ UNCHANGED <<objective, value, optimizer, opt, hc, computeCalls, pot, tab, cm, comm, cfg>>

\* the values written by one iteration: start + new_step*d
StepPoint(keys, start, new_step, d) ==
    [k \in KeySet(keys) |-> RAdd(start.design_variables[k], RMul(new_step, d[k]))]

\* FindIterate with the brackets exchanged in lines 254-259: the upper bracket
\* is replaced when the new target is > 0 and the lower bracket otherwise
FindIterate_exchanged ==
    /\ ls.pc = "loop"
    /\ FindContinues(ls, optimizer.line_search.max_iter)
    /\ LET keys == objective.dvars
           new_step == Interpolate(ls.steps, ls.targets)
           written == StepPoint(keys, ls.start, new_step, ls.d)
           new_res == compute(keys, written)
           new_target == Target(keys, ls.d, new_res)
           lower == ~RGt(new_target, I(0))
       IN  /\ value' = written
           /\ ls' = [ls EXCEPT !.new_res = new_res,
                               !.new_target = new_target,
                               !.steps = IF lower THEN <<new_step, ls.steps[2]>>
                                         ELSE <<ls.steps[1], new_step>>,
                               !.targets = IF lower THEN <<new_target, ls.targets[2]>>
                                           ELSE <<ls.targets[1], new_target>>,
                               !.iter_num = ls.iter_num + 1]
    /\ computeCalls' = computeCalls + 1
    /\ UNCHANGED <<objective, optimizer, opt, hc, pot, tab, cm, comm, cfg>>

\* lines 243-261: one iteration of the interpolation loop
FindIterate ==
    /\ ls.pc = "loop"
    /\ FindContinues(ls, optimizer.line_search.max_iter)
    /\ LET keys == objective.dvars
           new_step == Interpolate(ls.steps, ls.targets)
           written == StepPoint(keys, ls.start, new_step, ls.d)
           new_res == compute(keys, written)
           new_target == Target(keys, ls.d, new_res)
           lower == RGt(new_target, I(0))
       IN  /\ value' = written
           /\ ls' = [ls EXCEPT !.new_res = new_res,
                               !.new_target = new_target,
                               !.steps = IF lower THEN <<new_step, ls.steps[2]>>
                                         ELSE <<ls.steps[1], new_step>>,
                               !.targets = IF lower THEN <<new_target, ls.targets[2]>>
                                           ELSE <<ls.targets[1], new_target>>,
                               !.iter_num = ls.iter_num + 1]
    /\ computeCalls' = computeCalls + 1
    /\ UNCHANGED <<objective, optimizer, opt, hc, pot, tab, cm, comm, cfg>>

\* line 263: the loop is left and the last evaluation is the result
FindLoopExit ==
    /\ ls.pc = "loop"
    /\ ~FindContinues(ls, optimizer.line_search.max_iter)
    /\ ls' = [ls EXCEPT !.pc = "restore", !.result = ls.new_res]
    /\ UNCHANGED <<objective, value, optimizer, opt, hc, computeCalls, pot, tab, cm, comm, cfg>>

\* Restored leaving the variables as the last evaluation wrote them
Restored_not(f, v) == v

\* lines 265-266: the values written back to the variables before find returns
Restored(f, v) == f.ovars

\* lines 265-267
FindReturn ==
    /\ ls.pc = "restore"
    /\ value' = Restored(ls, value)
    /\ ls' = [ls EXCEPT !.pc = "returned"]
    /\ UNCHANGED <<objective, optimizer, opt, hc, computeCalls, pot, tab, cm, comm, cfg>>

(***************************************************************************)
(* A direct call of find on an objective of one or two design variables.   *)
(***************************************************************************)
\* results found by evaluating the objective, and results of some other objective
\* (gradients unrelated to the recorded values)
FindResults(keys) ==
    {compute(keys, p) : p \in Points(keys)}
    \cup {make_result(keys, [k \in KeySet(keys) |-> I(g)], p) :
            p \in [KeySet(keys) -> {I(0), I(1)}], g \in {-1, 1}}

\* the live values when find is called
LivePoints(keys) == {[k \in KeySet(keys) |-> I(i)] : i \in {-MaxX, 1, MaxX}}

RelTols == {Q(1, 4), Q(1, 2)}

LineSearches == {[set |-> TRUE, rel_tol |-> c, max_iter |-> m] : c \in RelTols, m \in 1..MaxIter}

InitFind ==
    /\ \E keys \in {Keys1, Keys2} :
          /\ objective = [dvars |-> keys]
          /\ value \in LivePoints(keys)
          /\ \E s \in FindResults(keys), e \in FindResults(keys) : ls = FindCall("user", s, e)
    /\ \E l \in LineSearches :
          optimizer = [method |-> "SteepestDescent", abs_tol |-> [kind |-> "scalar", tol |-> I(0)],
                       max_iter |-> 1, step_size |-> I(1),
                       scale |-> [kind |-> "scalar", v |-> I(1)], line_search |-> l]
    /\ opt = NoFrame
    /\ hc = NoFrame
    /\ computeCalls = 0
    /\ pot = NoFrame
    /\ tab = NoFrame
    /\ cm = NoFrame
    /\ comm = NoFrame
    /\ cfg = NoFrame

NextFind == FindEnter \/ FindIterate \/ FindLoopExit \/ FindReturn

SpecFind == InitFind /\ [][NextFind]_vars

(***************************************************************************)
(* SteepestDescent.optimize(objective), inherited by FixedStepDescent.     *)
(***************************************************************************)
\* lines 408-417: the scaling parameter of every design variable
FixScale(keys, scale) ==
    [x \in KeySet(keys) |->
        IF scale.kind = "scalar" THEN scale.v
        ELSE IF x \in DOMAIN scale.v THEN scale.v[x] ELSE I(1)]

\* exact square root of a double that is a square (the norm of a one-component
\* array always is); sqrt(inf) = inf, sqrt(NaN) = NaN
ISqrt(n) == CHOOSE r \in 0..n : r * r = n

RSqrt(a) == IF a.d = 0 THEN a ELSE Q(ISqrt(a.n), ISqrt(a.d))

\* Norm as the sum of the magnitudes of the components
Norm_l1(keys, a) ==
    LET S[i \in 0..Len(keys)] == IF i = 0 THEN I(0) ELSE RAdd(S[i - 1], RAbs(a[keys[i]]))
    IN  S[Len(keys)]

\* a.norm()
Norm(keys, a) == RSqrt(Dot(keys, a, a))

\* descent_amount of SteepestDescent for both methods: no division by the norm
descent_amount_unnormalised(method, step_size, keys, gradient) ==
    [i \in KeySet(keys) |-> step_size]

\* SteepestDescent.descent_amount: step_size for every key;
\* FixedStepDescent.descent_amount: step_size for every key, divided by gradient.norm()
descent_amount(method, step_size, keys, gradient) ==
    [i \in KeySet(keys) |->
        IF method = "FixedStepDescent" THEN RDiv(step_size, Norm(keys, gradient))
        ELSE step_size]

\* line 422: grad_y = scale*cur_res.gradient
ScaledGradient(keys, scale, result) ==
    [x \in KeySet(keys) |-> RMul(scale[x], result.gradient[x])]

\* UpdatedValues with the update added to the variables (ascent)
UpdatedValues_ascent(o, keys, scale, cur_res) ==
    LET grad_y == ScaledGradient(keys, scale, cur_res)
        amount == descent_amount(o.method, o.step_size, keys, grad_y)
        update == [x \in KeySet(keys) |-> RMul(amount[x], grad_y[x])]
    IN  [x \in KeySet(keys) |-> RAdd(cur_res.design_variables[x], update[x])]

\* lines 422-427: the values the steepest descent update writes
UpdatedValues(o, keys, scale, cur_res) ==
    LET grad_y == ScaledGradient(keys, scale, cur_res)
        amount == descent_amount(o.method, o.step_size, keys, grad_y)
        update == [x \in KeySet(keys) |-> RMul(amount[x], grad_y[x])]
    IN  [x \in KeySet(keys) |-> RSub(cur_res.design_variables[x], update[x])]

\* WhileTest with the budget test iter_num <= max_iter
WhileTest_one_more(o, f) ==
    LET c == has_converged(o.abs_tol, f.cur_res)
    IN  IF c = "KeyError" THEN "raised"
        ELSE IF c = "False" /\ f.iter_num <= o.max_iter THEN "body"
        ELSE "return"

\* a loop test that goes on while updates are left, converged or not
WhileTest_until_max_iter(o, f) ==
    LET c == has_converged(o.abs_tol, f.cur_res)
    IN  IF c = "KeyError" THEN "raised"
        ELSE IF f.iter_num < o.max_iter THEN "body"
        ELSE "return"

\* line 421: the loop condition, or the KeyError has_converged raises
WhileTest(o, f) ==
    LET c == has_converged(o.abs_tol, f.cur_res)
    IN  IF c = "KeyError" THEN "raised"
        ELSE IF c = "False" /\ f.iter_num < o.max_iter THEN "body"
        ELSE "return"

\* NoDesignVariables that never holds: optimize goes on to compute
NoDesignVariables_never(dvars) == FALSE

\* line 405: len(dvars) == 0
NoDesignVariables(dvars) == Len(dvars) = 0

\* lines 404-420
OptimizeEnter ==
    /\ opt.pc = "call"
    /\ LET dvars == objective.dvars
       IN  IF NoDesignVariables(dvars)
           THEN /\ opt' = [opt EXCEPT !.pc = "returned", !.ret = "None"]
                /\ computeCalls' = computeCalls
           ELSE /\ opt' = [opt EXCEPT !.pc = "while",
                                      !.scale = FixScale(dvars, optimizer.scale),
                                      !.iter_num = 0,
                                      !.cur_res = compute(dvars, value)]
                /\ computeCalls' = computeCalls + 1
    /\ UNCHANGED <<objective, value, optimizer, ls, hc, pot, tab, cm, comm, cfg>>

\* line 421
OptimizeWhile ==
    /\ opt.pc = "while"
    /\ LET t == WhileTest(optimizer, opt)
       IN  opt' = [opt EXCEPT !.pc = t,
                              !.err = IF t = "raised" THEN "KeyError" ELSE opt.err]
    /\ UNCHANGED <<objective, value, optimizer, ls, hc, computeCalls, pot, tab, cm, comm, cfg>>

\* OptimizeUpdate with cur_res holding the variables themselves and not a copy of
\* their values: the write of line 427 shows in the recorded values of cur_res
OptimizeUpdate_aliased ==
    /\ opt.pc = "body"
    /\ value' = UpdatedValues(optimizer, objective.dvars, opt.scale, opt.cur_res)
    /\ opt' = [opt EXCEPT !.cur_res = [opt.cur_res EXCEPT !.design_variables = value'],
                          !.next_res = compute(objective.dvars, value'),
                          !.pc = IF optimizer.line_search.set THEN "line_search" ELSE "recycle"]
    /\ computeCalls' = computeCalls + 1
    /\ UNCHANGED <<objective, optimizer, ls, hc, pot, tab, cm, comm, cfg>>

\* lines 422-428
OptimizeUpdate ==
    /\ opt.pc = "body"
    /\ value' = UpdatedValues(optimizer, objective.dvars, opt.scale, opt.cur_res)
    /\ opt' = [opt EXCEPT !.next_res = compute(objective.dvars, value'),
                          !.pc = IF optimizer.line_search.set THEN "line_search" ELSE "recycle"]
    /\ computeCalls' = computeCalls + 1
    /\ UNCHANGED <<objective, optimizer, ls, hc, pot, tab, cm, comm, cfg>>

\* line 432: the call of find; a ValueError raised by find would leave optimize here
OptimizeLineSearch ==
    /\ opt.pc = "line_search"
    /\ ls = NoFrame
    /\ ls' = FindCall("optimize", opt.cur_res, opt.next_res)
    /\ opt' = [opt EXCEPT !.pc = "in_find"]
    /\ UNCHANGED <<objective, value, optimizer, hc, computeCalls, pot, tab, cm, comm, cfg>>

\* OptimizeAdopt without lines 433-434: the refined point is adopted as the
\* result and never written into the variables
OptimizeAdopt_unwritten ==
    /\ opt.pc = "in_find"
    /\ ls.pc = "returned"
    /\ value' = value
    /\ opt' = [opt EXCEPT !.line_res = ls.result, !.next_res = ls.result, !.pc = "recycle"]
    /\ ls' = NoFrame
    /\ UNCHANGED <<objective, optimizer, hc, computeCalls, pot, tab, cm, comm, cfg>>

\* lines 432-435: find has returned and its result is adopted
OptimizeAdopt ==
    /\ opt.pc = "in_find"
    /\ ls.pc = "returned"
    /\ value' = [x \in KeySet(objective.dvars) |-> ls.result.design_variables[x]]
    /\ opt' = [opt EXCEPT !.line_res = ls.result, !.next_res = ls.result, !.pc = "recycle"]
    /\ ls' = NoFrame
    /\ UNCHANGED <<objective, optimizer, hc, computeCalls, pot, tab, cm, comm, cfg>>

\* lines 438-439
OptimizeRecycle ==
    /\ opt.pc = "recycle"
    /\ opt' = [opt EXCEPT !.cur_res = opt.next_res, !.iter_num = opt.iter_num + 1,
                          !.pc = "while"]
    /\ UNCHANGED <<objective, value, optimizer, ls, hc, computeCalls, pot, tab, cm, comm, cfg>>

\* line 441
OptimizeReturn ==
    /\ opt.pc = "return"
    /\ opt' = [opt EXCEPT !.pc = "returned", !.ret = has_converged(optimizer.abs_tol, opt.cur_res)]
    /\ UNCHANGED <<objective, value, optimizer, ls, hc, computeCalls, pot, tab, cm, comm, cfg>>

(***************************************************************************)
(* A call of optimize.                                                     *)
(***************************************************************************)
StepSizes == {Q(1, 4), Q(1, 2), I(1)}

\* valid scale settings (positive): a scalar, or a dict on some of the variables
Scales(keys) ==
    {[kind |-> "scalar", v |-> c] : c \in {I(1), I(2)}}
    \cup {[kind |-> "dict", v |-> f] : f \in PartialFns(KeySet(keys), {Q(1, 2)})}

\* the abs_tol settings of an optimizer: a scalar, or a dict on some of the variables
OptAbsTols(keys) ==
    {[kind |-> "scalar", tol |-> I(t)] : t \in 0..MaxTol}
    \cup {[kind |-> "dict", tol |-> f] : f \in PartialFns(KeySet(keys), {I(1)})}

\* FixedStepDescent divides by the norm of the scaled gradient, which is a double
\* the model represents exactly only for one design variable
Methods(keys) ==
    IF Len(keys) = 1 THEN {"SteepestDescent", "FixedStepDescent"} ELSE {"SteepestDescent"}

OptLineSearches ==
    {NoLineSearch} \cup {[set |-> TRUE, rel_tol |-> Q(1, 2), max_iter |-> m] : m \in 1..MaxIter}

Init ==
    /\ \E keys \in {<<>>, Keys1, Keys2} :
          /\ objective = [dvars |-> keys]
          /\ value \in Points(keys)
          /\ \E m \in Methods(keys), a \in OptAbsTols(keys), n \in 1..MaxIter,
                step \in StepSizes, sc \in Scales(keys), l \in OptLineSearches :
                optimizer = [method |-> m, abs_tol |-> a, max_iter |-> n, step_size |-> step,
                             scale |-> sc, line_search |-> l]
          /\ opt = [pc |-> "call", scale |-> <<>>, iter_num |-> 0, cur_res |-> NoResult,
                    next_res |-> NoResult, line_res |-> NoResult, ret |-> "none",
                    err |-> "none"]
    /\ ls = NoFrame
    /\ hc = NoFrame
    /\ computeCalls = 0
    /\ pot = NoFrame
    /\ tab = NoFrame
    /\ cm = NoFrame
    /\ comm = NoFrame
    /\ cfg = NoFrame

Next ==
    \/ OptimizeEnter
    \/ OptimizeWhile
    \/ OptimizeUpdate
    \/ OptimizeLineSearch
    \/ OptimizeAdopt
    \/ OptimizeRecycle
    \/ OptimizeReturn
    \/ FindEnter
    \/ FindIterate
    \/ FindLoopExit
    \/ FindReturn

Spec == Init /\ [][Next]_vars

(***************************************************************************)
(* The runs of test_run: optimize with no line search on f = (x-1)^2, or   *)
(* on its sum over two variables, from a given start.                      *)
(***************************************************************************)
\* test_method.py line 132: abs_tol = 1e-8
TestTol == [kind |-> "scalar", tol |-> Q(1, 100000000)]

\* test_method.py line 133: max_iter = 1000; line 183: max_iter = 10000
TestMaxIter == 1000

LargeMaxIter == 10000

\* test_method.py line 182: step_size = 0.42
LargeStep == Q(21, 50)

UnitScale == [kind |-> "scalar", v |-> I(1)]

RunOptimizer(m, a, n, step, sc) ==
    [method |-> m, abs_tol |-> a, max_iter |-> n, step_size |-> step, scale |-> sc,
     line_search |-> NoLineSearch]

Point1(q) == [k \in KeySet(Keys1) |-> q]

\* SteepestDescent as in test_run lines 130-141: from 3.0 with max_iter = 1000, and
\* with max_iter = 1 from 1.5 and other starts, one of them just outside the tolerance
SteepestRuns ==
    {<<Keys1, Point1(I(3)),
       RunOptimizer("SteepestDescent", TestTol, TestMaxIter, Q(1, 4), UnitScale)>>}
    \cup {<<Keys1, Point1(q),
            RunOptimizer("SteepestDescent", TestTol, 1, Q(1, 4), UnitScale)>> :
            q \in {I(i) : i \in -MaxX..MaxX} \cup {I(3), Q(3, 2), Q(400000003, 400000000)}}

\* FixedStepDescent as in test_run lines 180-184: step_size = 0.42 from 1.5
OscillatingRuns ==
    {<<Keys1, Point1(Q(3, 2)),
       RunOptimizer("FixedStepDescent", TestTol, n, LargeStep, UnitScale)>> :
       n \in (1..MaxIter) \cup {LargeMaxIter}}

ZeroTol == [kind |-> "scalar", tol |-> I(0)]

RunTols == {ZeroTol, [kind |-> "scalar", tol |-> I(1)]}

IsSquare(n) == \E r \in 0..n : r * r = n

\* starts in two dimensions where the gradient 2(x-1), 2(y-1) has a norm that is
\* a rational number
NormedPoints ==
    {p \in [KeySet(Keys2) -> {I(i) : i \in -(MaxX + 3)..(MaxX + 3)}] :
        IsSquare((p["x"].n - 1) * (p["x"].n - 1) + (p["y"].n - 1) * (p["y"].n - 1))}

\* FixedStepDescent with other steps, scales and starts, in one and two dimensions;
\* the last run has scales that differ between the variables
FixedStepRuns ==
    {<<Keys1, p, RunOptimizer("FixedStepDescent", a, n, step, sc)>> :
        p \in Points(Keys1), a \in RunTols, n \in 1..MaxIter, step \in StepSizes,
        sc \in Scales(Keys1)}
    \cup {<<Keys2, p, RunOptimizer("FixedStepDescent", a, n, step, sc)>> :
        p \in NormedPoints, a \in RunTols, n \in 1..MaxIter, step \in StepSizes,
        sc \in {sc \in Scales(Keys2) : sc.kind = "scalar"}}
    \cup {<<Keys2, [k \in KeySet(Keys2) |-> IF k = "x" THEN I(4) ELSE I(9)],
            RunOptimizer("FixedStepDescent", ZeroTol, 1, Q(1, 2),
                         [kind |-> "dict", v |-> [k \in {"y"} |-> Q(1, 2)]])>>}

\* x0 keeps the values the variables had when optimize was called
InitRun ==
    /\ \E r \in SteepestRuns \cup OscillatingRuns \cup FixedStepRuns :
          /\ objective = [dvars |-> r[1]]
          /\ value = r[2]
          /\ optimizer = r[3]
          /\ opt = [pc |-> "call", scale |-> <<>>, iter_num |-> 0, cur_res |-> NoResult,
                    next_res |-> NoResult, line_res |-> NoResult, ret |-> "none",
                    err |-> "none", x0 |-> r[2]]
    /\ ls = NoFrame
    /\ hc = NoFrame
    /\ computeCalls = 0
    /\ pot = NoFrame
    /\ tab = NoFrame
    /\ cm = NoFrame
    /\ comm = NoFrame
    /\ cfg = NoFrame

NextRun ==
    \/ OptimizeEnter
    \/ OptimizeWhile
    \/ OptimizeUpdate
    \/ OptimizeRecycle
    \/ OptimizeReturn

SpecRun == InitRun /\ [][NextRun]_vars

(***************************************************************************)
(* relentless/potential.py: LJPotential evaluated for one pair.  An array  *)
(* of separations is a sequence of doubles; numpy evaluates the formulas   *)
(* entry by entry, a division by zero giving inf and inf - inf giving NaN. *)
(***************************************************************************)
MaxR == 2          \* separations and cutoffs are multiples of 1/2 in 0..MaxR
MaxLen == 2        \* an array of separations has 1..MaxLen entries

\* np.isclose(r, 0) with the default atol = 1e-8 (and rtol*|0| = 0)
IsCloseZero(r) == RLe(RAbs(r), Q(1, 100000000))

\* range_flags of lines 160 and 188
InRange(r, rmin, rmax) == RGe(r, rmin) /\ RLe(r, rmax)

\* np.power(a, n) for an integer exponent n >= 0
RECURSIVE RPow(_, _)
RPow(a, n) == IF n = 0 THEN I(1) ELSE RMul(a, RPow(a, n - 1))

\* line 163 and line 191: np.logical_xor(range_flags, zero_flags)
FormulaFlags(range, zero) == range # zero

\* lines 167 and 196: np.logical_and(range_flags, zero_flags)
InfiniteFlags(range, zero) == range /\ zero

\* LJPotential.energy at one entry r of the array
energy1(r, epsilon, sigma, n, rmin, rmax) ==
    LET zero == IsCloseZero(r)
        range == InRange(r, rmin, rmax)
        rn_inv == RPow(RDiv(sigma, r), n)
    IN  IF InfiniteFlags(range, zero) THEN Inf
        ELSE IF FormulaFlags(range, zero)
            THEN RMul(RMul(I(4), epsilon), RSub(RMul(rn_inv, rn_inv), rn_inv))
        ELSE I(0)

\* LJPotential.energy(r, epsilon, sigma, n, rmin, rmax): lines 156-171
energy(r, p) ==
    [i \in 1..Len(r) |-> energy1(r[i], p.epsilon, p.sigma, p.n, p.rmin, p.rmax)]

\* the force of lines 183-198 at one entry r of the array
force1(r, epsilon, sigma, n, rmin, rmax) ==
    LET zero == IsCloseZero(r)
        range == InRange(r, rmin, rmax)
        rinv == RDiv(I(1), r)
        rn_inv == RPow(RMul(sigma, rinv), n)
    IN  IF InfiniteFlags(range, zero) THEN Inf
        ELSE IF FormulaFlags(range, zero)
            THEN RMul(RMul(RMul(RMul(I(8), I(n)), epsilon), rinv),
                      RSub(RMul(rn_inv, rn_inv), RMul(Q(1, 2), rn_inv)))
        ELSE I(0)

\* CoefficientMatrix.evaluate(pair): the parameters of the pair, or the
\* ValueError raised for a parameter that is not set (None)
evaluate(coeff) == IF coeff.unset # {} THEN "ValueError" ELSE "ok"

\* ShiftMask with r < rmax
ShiftMask_strict(r, rmax) == RLt(r, rmax)

\* line 94: np.atleast_1d(r) <= params['rmax']
ShiftMask(r, rmax) == RLe(r, rmax)

\* PairPotential.__call__(r, pair): lines 91-95
call(shift, r, p) ==
    LET u == energy(r, p)
        urmax == energy(<<p.rmax>>, p)[1]
    IN  [i \in 1..Len(r) |->
            IF shift /\ ShiftMask(r[i], p.rmax) THEN RSub(u[i], urmax) ELSE u[i]]

\* LJPotential.force(r, pair): lines 173-198
force(r, p) ==
    [i \in 1..Len(r) |-> force1(r[i], p.epsilon, p.sigma, p.n, p.rmin, p.rmax)]

\* no optimizer, objective or line search exists
NoOptimization ==
    /\ objective = [dvars |-> <<>>]
    /\ value = <<>>
    /\ optimizer = NoFrame
    /\ opt = NoFrame
    /\ ls = NoFrame
    /\ hc = NoFrame
    /\ computeCalls = 0

Halves == {Q(k, 2) : k \in 0..(2 * MaxR)}

\* a separation that is not 0 and that np.isclose takes for 0
TinyR == Q(1, 200000000)

\* the coefficients of the pair: epsilon and sigma set by the user, n and rmin
\* set or left at their defaults 6 and 0 (the model keeps to small exponents),
\* rmax set, or not set (None)
Coefficients ==
    {c \in {[epsilon |-> I(1), sigma |-> I(1), n |-> n, rmin |-> rmin, rmax |-> rmax,
              unset |-> {}] : n \in {1, 2}, rmin \in {I(0), Q(1, 2), I(1)}, rmax \in Halves} :
        RLe(c.rmin, c.rmax)}
    \cup {[epsilon |-> I(1), sigma |-> I(1), n |-> 1, rmin |-> I(0), rmax |-> I(0),
            unset |-> {"rmax"}]}

\* the separations of a call; the tiny separation only where it is inside the
\* range (outside, the inverse powers of it are beyond the integers of the model)
Separations(c) ==
    Halves \cup (IF c.rmin = I(0) /\ RLt(TinyR, c.rmax) THEN {TinyR} ELSE {})

Arrays(S) == UNION {[1..l -> S] : l \in 1..MaxLen}

InitPot ==
    /\ NoOptimization
    /\ \E c \in Coefficients, shift \in BOOLEAN :
          \E r \in Arrays(Separations(c)) :
             pot = [pc |-> "ready", shift |-> shift, coeff |-> c, r |-> r, done |-> {},
                    e |-> <<>>, u |-> <<>>, f |-> <<>>, err |-> {}]
    /\ tab = NoFrame
    /\ cm = NoFrame
    /\ comm = NoFrame
    /\ cfg = NoFrame

\* a direct call of energy with the parameters of the pair
PotEnergy ==
    /\ pot.pc = "ready"
    /\ "energy" \notin pot.done
    /\ evaluate(pot.coeff) = "ok"
    /\ pot' = [pot EXCEPT !.e = energy(pot.r, pot.coeff), !.done = @ \cup {"energy"}]
    /\ UNCHANGED <<optvars, tab, cm, comm, cfg>>

\* potential(r, pair)
PotCall ==
    /\ pot.pc = "ready"
    /\ "call" \notin pot.done
    /\ pot' = IF evaluate(pot.coeff) = "ValueError"
              THEN [pot EXCEPT !.err = @ \cup {"call"}, !.done = @ \cup {"call"}]
              ELSE [pot EXCEPT !.u = call(pot.shift, pot.r, pot.coeff),
                               !.done = @ \cup {"call"}]
    /\ UNCHANGED <<optvars, tab, cm, comm, cfg>>

\* potential.force(r, pair)
PotForce ==
    /\ pot.pc = "ready"
    /\ "force" \notin pot.done
    /\ pot' = IF evaluate(pot.coeff) = "ValueError"
              THEN [pot EXCEPT !.err = @ \cup {"force"}, !.done = @ \cup {"force"}]
              ELSE [pot EXCEPT !.f = force(pot.r, pot.coeff), !.done = @ \cup {"force"}]
    /\ UNCHANGED <<optvars, tab, cm, comm, cfg>>

NextPot == PotEnergy \/ PotCall \/ PotForce

SpecPot == InitPot /\ [][NextPot]_vars

(***************************************************************************)
(* relentless/potential.py: Tabulator.regularize(u, f, trim).  Arrays are  *)
(* sequences; cut keeps the 0-based index of the code, entry cut of an     *)
(* array a being a[cut + 1].                                               *)
(***************************************************************************)
MaxBins == 3       \* the grid of a Tabulator has 1..MaxBins bins

\* lines 209-213: the grid, bin edges (np.linspace) or bin midpoints
Grid(nbins, rmin, rmax, edges) ==
    LET dr == RDiv(RSub(rmax, rmin), I(nbins))
    IN  IF edges THEN [i \in 1..(nbins + 1) |-> RAdd(rmin, RMul(I(i - 1), dr))]
        ELSE [i \in 1..nbins |-> RAdd(rmin, RMul(dr, RAdd(I(i - 1), Q(1, 2))))]

\* np.argmax of an array of flags: the index of the first True, 0 when there is none
ArgMax(flags) ==
    IF \E i \in 1..Len(flags) : flags[i]
    THEN (CHOOSE i \in 1..Len(flags) : flags[i] /\ \A j \in 1..(i - 1) : ~flags[j]) - 1
    ELSE 0

\* np.flip
Flip(a) == [i \in 1..Len(a) |-> a[Len(a) + 1 - i]]

\* TangentLine rising with r where the force is positive
TangentLine_rising(uc, fc, ri, rc) == RAdd(uc, RMul(fc, RSub(ri, rc)))

\* line 246: u[cut] - f[cut]*(self.r[:cut] - self.r[cut]), at one entry
TangentLine(uc, fc, ri, rc) == RSub(uc, RMul(fc, RSub(ri, rc)))

\* line 244: np.abs(f) <= self.fmax
FmaxComplies(f, fmax) == RLe(RAbs(f), fmax)

\* lines 243-248: the arrays u and f after the fmax step
FmaxStep(fmax, r, u, f) ==
    IF ~fmax.set THEN [u |-> u, f |-> f]
    ELSE LET cut == ArgMax([i \in 1..Len(f) |-> FmaxComplies(f[i], fmax.v)])
         IN  IF cut > 0
             THEN [u |-> [i \in 1..Len(u) |->
                            IF i - 1 < cut
                            THEN TangentLine(u[cut + 1], f[cut + 1], r[i], r[cut + 1])
                            ELSE u[i]],
                   f |-> [i \in 1..Len(f) |-> IF i - 1 < cut THEN f[cut + 1] ELSE f[i]]]
             ELSE [u |-> u, f |-> f]

\* FcutIndex counting the flags from the low end of the table
FcutIndex_unflipped(f, fcut) ==
    Len(f) - 1 - ArgMax([i \in 1..Len(f) |-> RGe(RAbs(f[i]), fcut)])

\* lines 252-253: the index the table is cut at
FcutIndex(f, fcut) ==
    Len(f) - 1 - ArgMax([i \in 1..Len(f) |-> RGe(RAbs(Flip(f)[i]), fcut)])

\* lines 251-257: the arrays u and f after the fcut step
FcutStep(fcut, u, f) ==
    IF ~fcut.set THEN [u |-> u, f |-> f]
    ELSE LET cut == FcutIndex(f, fcut.v)
             shifted == [i \in 1..Len(u) |-> RSub(u[i], u[cut + 1])]
         IN  IF cut < Len(f) - 1
             THEN [u |-> [i \in 1..Len(u) |-> IF i - 1 >= cut + 1 THEN I(0) ELSE shifted[i]],
                   f |-> [i \in 1..Len(f) |-> IF i - 1 >= cut + 1 THEN I(0) ELSE f[i]]]
             ELSE [u |-> shifted, f |-> f]

\* lines 260-267: the number of rows kept by the trimming of trailing zeros
TrimLength(trim, f) ==
    IF ~trim THEN Len(f)
    ELSE LET cut == Len(f) - ArgMax([i \in 1..Len(f) |-> RGt(RAbs(Flip(f)[i]), I(0))])
         IN  IF cut < Len(f) - 1 THEN cut + 1 ELSE Len(f)

\* line 269: np.column_stack((r, u, f))
ColumnStack(r, u, f) == [i \in 1..Len(r) |-> <<r[i], u[i], f[i]>>]

\* fmax and fcut of the Tabulator: None, or a positive double
NotSet == [set |-> FALSE, v |-> I(0)]

Thresholds(v) == {NotSet, [set |-> TRUE, v |-> v]}

\* energies of a table, and forces below fcut = 1, between fcut and fmax = 2,
\* and above fmax in magnitude
UValues == {I(-1), I(2)}

FValues == {I(0), I(1), I(-3)}

\* the +inf a Lennard-Jones potential gives at a first grid point r = 0
WithInfiniteHead(a) == [a EXCEPT ![1] = Inf]

\* the tables u, f handed to regularize for the grid r: of the length of the grid,
\* finite or, on a grid that starts at 0, starting with +inf, and pairs of
\* another length
Tables(r) ==
    LET n == Len(r)
        finite == {<<u, f>> : u \in [1..n -> UValues], f \in [1..n -> FValues]}
        one == [i \in 1..n |-> I(1)]
    IN  finite
        \cup (IF r[1] = I(0)
              THEN {<<WithInfiniteHead(t[1]), WithInfiniteHead(t[2])>> : t \in finite}
              ELSE {})
        \cup {<<SubSeq(one, 1, n - 1), one>>, <<one, SubSeq(one, 1, n - 1)>>}

InitTab ==
    /\ NoOptimization
    /\ pot = NoFrame
    /\ cm = NoFrame
    /\ comm = NoFrame
    /\ cfg = NoFrame
    /\ \E nbins \in 1..MaxBins, edges \in BOOLEAN :
          LET r == Grid(nbins, I(0), I(2), edges)
          IN  \E t \in Tables(r), fmax \in Thresholds(I(2)), fcut \in Thresholds(I(1)),
                 trim \in BOOLEAN :
                 tab = [pc |-> "call", r |-> r, fmax |-> fmax, fcut |-> fcut, trim |-> trim,
                        u0 |-> t[1], f0 |-> t[2], u |-> t[1], f |-> t[2],
                        u1 |-> <<>>, f1 |-> <<>>, table |-> <<>>, err |-> "none",
                        warnings |-> <<>>]

\* lines 238-241
RegularizeEnter ==
    /\ tab.pc = "call"
    /\ tab' = IF Len(tab.u) # Len(tab.r) \/ Len(tab.f) # Len(tab.r)
              THEN [tab EXCEPT !.pc = "raised", !.err = "IndexError"]
              ELSE [tab EXCEPT !.pc = "fmax"]
    /\ UNCHANGED <<optvars, pot, cm, comm, cfg>>

\* lines 243-248; u1 and f1 keep the arrays as this step leaves them
RegularizeFmax ==
    /\ tab.pc = "fmax"
    /\ LET s == FmaxStep(tab.fmax, tab.r, tab.u, tab.f)
       IN  tab' = [tab EXCEPT !.u = s.u, !.f = s.f, !.u1 = s.u, !.f1 = s.f, !.pc = "fcut"]
    /\ UNCHANGED <<optvars, pot, cm, comm, cfg>>

\* lines 250-257; no statement of regularize emits a warning, so tab.warnings,
\* the warnings emitted by the call, is left as it is by every step
RegularizeFcut ==
    /\ tab.pc = "fcut"
    /\ LET s == FcutStep(tab.fcut, tab.u, tab.f)
       IN  tab' = [tab EXCEPT !.u = s.u, !.f = s.f, !.pc = "trim"]
    /\ UNCHANGED <<optvars, pot, cm, comm, cfg>>

\* lines 259-269
RegularizeReturn ==
    /\ tab.pc = "trim"
    /\ LET n == TrimLength(tab.trim, tab.f)
       IN  tab' = [tab EXCEPT !.table = ColumnStack(SubSeq(tab.r, 1, n), SubSeq(tab.u, 1, n),
                                                    SubSeq(tab.f, 1, n)),
                              !.pc = "returned"]
    /\ UNCHANGED <<optvars, pot, cm, comm, cfg>>

NextTab == RegularizeEnter \/ RegularizeFmax \/ RegularizeFcut \/ RegularizeReturn

SpecTab == InitTab /\ [][NextTab]_vars

(***************************************************************************)
(* Properties.                                                             *)
(***************************************************************************)
\* every design variable of the result has a tolerance and a gradient within it
WithinTol(abs_tol, result) ==
    \A x \in KeySet(result.keys) :
        HasTol(abs_tol, x) /\ RLe(RAbs(result.gradient[x]), TolOf(abs_tol, x))

\* every design variable of the result has a tolerance and a scaled gradient within it
ScaledWithinTol(abs_tol, scale, result) ==
    \A x \in KeySet(result.keys) :
        HasTol(abs_tol, x)
        /\ RLe(RAbs(RMul(scale[x], result.gradient[x])), TolOf(abs_tol, x))

OptimizeReturned == opt.pc = "returned" /\ opt.ret \in {"True", "False"}

\* C1: optimize on an objective with design variables, raising no error, returns
\* True exactly when the last result it holds (cur_res) is within the tolerances,
\* and when it returns False, max_iter updates have been performed.
C1_OptimizeReturnValue ==
    (opt.pc = "returned" /\ Len(objective.dvars) > 0) =>
        /\ opt.ret \in {"True", "False"}
        /\ opt.ret = "True" <=> WithinTol(optimizer.abs_tol, opt.cur_res)
        /\ opt.ret = "False" => opt.iter_num = optimizer.max_iter

C1_Witness ==
    /\ opt.pc = "returned"
    /\ opt.ret = "False"
    /\ opt.iter_num = optimizer.max_iter
    /\ optimizer.max_iter > 1
    /\ Len(objective.dvars) = 2

\* the state right after the steepest descent update of lines 422-428
JustUpdated ==
    \/ opt.pc = "line_search"
    \/ opt.pc = "recycle" /\ ~optimizer.line_search.set

\* C2: one SteepestDescent update moves every design variable x from the value
\* recorded in the current result to x_old - step_size * scale[x]^2 * df/dx.
C2_UpdateUsesSquaredScale ==
    (JustUpdated /\ optimizer.method = "SteepestDescent") =>
        \A x \in KeySet(objective.dvars) :
            value[x] = RSub(opt.cur_res.design_variables[x],
                            RMul(optimizer.step_size,
                                 RMul(RMul(opt.scale[x], opt.scale[x]),
                                      opt.cur_res.gradient[x])))

HasConvergedDone == hc.pc \in {"returned", "raised"}

C4_MissingToleranceRaises ==
    (HasConvergedDone /\ \E x \in KeySet(hc.result.keys) : ~HasTol(optimizer.abs_tol, x))
        => hc.pc = "raised" /\ hc.ret = "KeyError"

\* C5: optimize treats a result as converged if and only if the scaled gradient
\* |scale[x] * df/dx| is within abs_tol[x] for every design variable x.
C5_ConvergenceOnScaledGradient ==
    OptimizeReturned =>
        (opt.ret = "True" <=> ScaledWithinTol(optimizer.abs_tol, opt.scale, opt.cur_res))

FindActive == ls.pc \in {"loop", "restore", "returned", "raised"}

\* C6: find saves the variables' values at the call, keeps the saved values through
\* the search, and on every normal return the variables hold the saved values
\* again, whatever the intermediate evaluations wrote.
C6_FindRestoresVariables ==
    [][/\ (ls.pc = "call" /\ ls'.pc \in {"loop", "restore"}) => ls'.ovars = value
       /\ (ls.pc \in {"loop", "restore"} /\ ls'.pc # "none") => ls'.ovars = ls.ovars
       /\ (ls.pc = "restore" /\ ls'.pc = "returned") => value' = ls.ovars]_vars

C6_Witness ==
    /\ ls.pc = "returned"
    /\ ls.iter_num >= 1
    /\ value = ls.ovars
    /\ \A x \in KeySet(objective.dvars) : ls.new_res.design_variables[x] # value[x]
    /\ Len(objective.dvars) = 2

\* the direction and the targets of the interval a call of find was given
FindD == KSub(objective.dvars, ls.end.design_variables, ls.start.design_variables)

FindT0 == Target(objective.dvars, FindD, ls.start)

FindT1 == Target(objective.dvars, FindD, ls.end)

FindTol == RMul(optimizer.line_search.rel_tol, RAbs(FindT0))

\* C7: find on a non-degenerate interval fails with ValueError whenever
\* target(start) is not strictly positive, and proceeds only when it is.
C7_RaisesUnlessTargetPositive ==
    (FindActive /\ ~NormIsZero(objective.dvars, FindD)) =>
        (ls.pc = "raised" <=> ~RGt(FindT0, I(0)))

\* C8: when start and end record identical values, find raises the ValueError
\* of the degenerate interval, without a call of compute and without a write to
\* a variable.
C8_DegenerateInterval ==
    [][(/\ ls.pc = "call"
        /\ ls'.pc # "call"
        /\ ls.start.design_variables = ls.end.design_variables) =>
            /\ ls'.pc = "raised"
            /\ ls'.err = "ValueError: start and end must be different"
            /\ computeCalls' = computeCalls
            /\ value' = value]_vars

C8_Witness ==
    /\ ls.pc = "raised"
    /\ ls.start.design_variables = ls.end.design_variables
    /\ ls.start.gradient # ls.end.gradient
    /\ computeCalls = 0
    /\ Len(objective.dvars) = 2

\* the end point is accepted: the result is the very result passed as end and
\* compute was not called (computeCalls counts from the call, in SpecFind)
EndAccepted == ls.pc \in {"restore", "returned"} /\ ls.result = ls.end /\ computeCalls = 0

\* C9 as stated: if target(end) > 0 or |target(end)| < rel_tol * |target(start)|,
\* find returns the result passed as end and makes no call of compute.
C9_AcceptsEndOriginal ==
    (FindActive /\ (RGt(FindT1, I(0)) \/ RLt(RAbs(FindT1), FindTol))) => EndAccepted

\* C9 as amended: the same, when find raises no error, that is when start and
\* end differ and target(start) is not negative.
C9_AcceptsEnd ==
    (/\ FindActive
     /\ ~NormIsZero(objective.dvars, FindD)
     /\ RGe(FindT0, I(0))
     /\ (RGt(FindT1, I(0)) \/ RLt(RAbs(FindT1), FindTol))) => EndAccepted

C9_Witness ==
    /\ ls.pc = "returned"
    /\ EndAccepted
    /\ RLt(FindT1, I(0))
    /\ RLt(RAbs(FindT1), FindTol)
    /\ value # ls.end.design_variables

\* start and end are results of the quadratic objective of one variable, on
\* opposite sides of its minimum x = 1, and start -> end is a descent direction
QuadraticBracket ==
    /\ objective.dvars = Keys1
    /\ ls.start = compute(Keys1, ls.start.design_variables)
    /\ ls.end = compute(Keys1, ls.end.design_variables)
    /\ RLt(RMul(RSub(ls.start.design_variables["x"], I(1)),
                RSub(ls.end.design_variables["x"], I(1))), I(0))
    /\ RGt(FindT0, I(0))

\* one interpolation reached the minimum, and the live value is the one at the call
FoundMinimum ==
    /\ ls.result.design_variables["x"] = I(1)
    /\ ls.result.gradient["x"] = I(0)
    /\ ls.iter_num = 1
    /\ computeCalls = 1
    /\ value = ls.ovars

\* C10 as stated: for every bracket of the minimum of (x-1)^2, find returns the
\* result at x = 1 with gradient 0 after a single interpolation.
C10_FindsMinimumOriginal == (ls.pc = "returned" /\ QuadraticBracket) => FoundMinimum

\* C10 as amended: the same, for the brackets whose end point is not accepted
\* as-is, that is with |target(end)| >= rel_tol * |target(start)|.
C10_FindsMinimum ==
    (ls.pc = "returned" /\ QuadraticBracket /\ RGe(RAbs(FindT1), FindTol)) => FoundMinimum

C10_Witness ==
    /\ ls.pc = "returned"
    /\ QuadraticBracket
    /\ FoundMinimum
    /\ value["x"] \notin {ls.start.design_variables["x"], ls.end.design_variables["x"], I(1)}

\* C14: when the objective has no design variables, optimize returns None
\* without calling compute and without writing any variable.
C14_NoDesignVariablesReturnsNone ==
    [][(opt.pc = "call" /\ Len(objective.dvars) = 0) =>
          /\ opt'.pc = "returned"
          /\ opt'.ret = "None"
          /\ computeCalls' = 0
          /\ value' = value
          /\ ls' = NoFrame]_vars

C14_Witness ==
    /\ opt.pc = "returned"
    /\ opt.ret = "None"
    /\ Len(objective.dvars) = 0
    /\ computeCalls = 0

\* C15: a result records the values the design variables had when compute was
\* called, and every write of the variables made after that (the update of
\* optimize, the iterations and the restore of find, the adoption of the line
\* search result) leaves the results returned before it unchanged, values and
\* gradient.
C15_ResultIsSnapshot ==
    [][/\ (opt.pc = "call" /\ Len(objective.dvars) > 0) =>
              opt'.cur_res.design_variables = value
       /\ opt.pc = "body" =>
              /\ opt'.next_res.design_variables = value'
              /\ opt'.cur_res = opt.cur_res
       /\ (ls.pc = "loop" /\ computeCalls' # computeCalls) =>
              /\ ls'.new_res.design_variables = value'
              /\ ls'.start = ls.start
              /\ ls'.end = ls.end
              /\ opt' = opt
       /\ ls.pc = "restore" =>
              /\ ls'.result = ls.result
              /\ ls'.start = ls.start
              /\ ls'.end = ls.end
              /\ opt' = opt
       /\ (opt.pc = "in_find" /\ ls.pc = "returned") =>
              /\ opt'.cur_res = opt.cur_res
              /\ opt'.next_res = ls.result]_vars

\* after an update the variables have moved on and cur_res still records the
\* values it was computed at
C15_Witness ==
    /\ JustUpdated
    /\ Len(objective.dvars) = 2
    /\ \A x \in KeySet(objective.dvars) :
          /\ opt.cur_res.design_variables[x] # value[x]
          /\ opt.cur_res.gradient[x] =
                 RMul(I(2), RSub(opt.cur_res.design_variables[x], I(1)))

RECURSIVE Pow2(_)
Pow2(k) == IF k = 0 THEN 1 ELSE 2 * Pow2(k - 1)

\* a run of SteepestDescent(abs_tol=1e-8, step_size=0.25, scale 1) on one variable
SteepestRun ==
    /\ optimizer.method = "SteepestDescent"
    /\ optimizer.abs_tol = TestTol
    /\ optimizer.step_size = Q(1, 4)
    /\ optimizer.scale = UnitScale
    /\ ~optimizer.line_search.set
    /\ objective.dvars = Keys1

\* the distance x - 1 of a live or recorded value from the minimizer
Off(v) == RSub(v["x"], I(1))

\* each update so far has halved x - 1
HalvedEachUpdate == Off(opt.x0) = RMul(I(Pow2(opt.iter_num)), Off(value))

\* assertAlmostEqual(x.value, 1.0): x - 1 rounds to 0 at 7 decimal places
AlmostOne == RLt(RAbs(Off(value)), Q(1, 20000000))

\* the single update of a run with max_iter = 1 has been made and the variable
\* stays at the value it wrote
OneUpdateMade ==
    /\ opt.iter_num = 1
    /\ computeCalls = 2
    /\ value["x"] = RSub(opt.x0["x"], RMul(Q(1, 4), RMul(I(2), Off(opt.x0))))
    /\ Off(value) # I(0)

\* C11 as stated: from x = 3.0 with max_iter = 1000 the run returns True with x
\* within the test tolerance of 1.0, each update halving x - 1; with max_iter = 1
\* from any start that is not converged it returns False after exactly one update,
\* with x not at the minimizer.
C11_SteepestDescentRunOriginal ==
    SteepestRun =>
        /\ opt.pc \in {"while", "returned"} => HalvedEachUpdate
        /\ (opt.pc = "returned" /\ optimizer.max_iter = TestMaxIter /\ opt.x0["x"] = I(3)) =>
               opt.ret = "True" /\ AlmostOne
        /\ (opt.pc = "returned" /\ optimizer.max_iter = 1
                /\ RGt(RAbs(RMul(I(2), Off(opt.x0))), TestTol.tol)) =>
               opt.ret = "False" /\ OneUpdateMade

\* C11: from x = 3.0 with max_iter = 1000 the run returns True with x within the
\* test tolerance of 1.0, each update halving x - 1; with max_iter = 1 from a
\* start whose gradient is larger than twice abs_tol in magnitude it returns
\* False after exactly one update, with x not at the minimizer.
C11_SteepestDescentRun ==
    SteepestRun =>
        /\ opt.pc \in {"while", "returned"} => HalvedEachUpdate
        /\ (opt.pc = "returned" /\ optimizer.max_iter = TestMaxIter /\ opt.x0["x"] = I(3)) =>
               opt.ret = "True" /\ AlmostOne
        /\ (opt.pc = "returned" /\ optimizer.max_iter = 1
                /\ RGt(RAbs(RMul(I(2), Off(opt.x0))), RMul(I(2), TestTol.tol))) =>
               opt.ret = "False" /\ OneUpdateMade

\* the run from 3.0 has returned True, after 29 updates
C11_Witness ==
    /\ SteepestRun
    /\ opt.pc = "returned"
    /\ optimizer.max_iter = TestMaxIter
    /\ opt.x0["x"] = I(3)
    /\ opt.ret = "True"
    /\ opt.iter_num = 29

\* the run from 1.5 with max_iter = 1 has returned False with x = 1.25
C11_WitnessOneUpdate ==
    /\ SteepestRun
    /\ opt.pc = "returned"
    /\ optimizer.max_iter = 1
    /\ opt.x0["x"] = Q(3, 2)
    /\ opt.ret = "False"
    /\ value["x"] = Q(5, 4)

\* the run of FixedStepDescent(abs_tol=1e-8, step_size=0.42, scale 1) from x = 1.5
OscillatingRun ==
    /\ optimizer.method = "FixedStepDescent"
    /\ optimizer.abs_tol = TestTol
    /\ optimizer.step_size = LargeStep
    /\ optimizer.scale = UnitScale
    /\ ~optimizer.line_search.set
    /\ objective.dvars = Keys1
    /\ opt.x0 = Point1(Q(3, 2))

\* C12: FixedStepDescent with step_size 0.42 and abs_tol 1e-8 from x = 1.5 never
\* holds a converged result: after the first update x is 1.08 after every odd
\* number of updates and 0.66 after every even number, and optimize returns
\* False after max_iter updates, for max_iter = 10000 and for every other budget.
C12_FixedStepOscillates ==
    OscillatingRun =>
        /\ (opt.pc \in {"while", "return", "returned"} /\ opt.iter_num >= 1) =>
               value["x"] = IF opt.iter_num % 2 = 1 THEN Q(27, 25) ELSE Q(33, 50)
        /\ opt.pc \in {"while", "return", "returned"} =>
               has_converged(optimizer.abs_tol, opt.cur_res) = "False"
        /\ opt.pc = "returned" =>
               opt.ret = "False" /\ opt.iter_num = optimizer.max_iter

\* the run with max_iter = 10000 has returned False, x at 0.66
C12_Witness ==
    /\ OscillatingRun
    /\ opt.pc = "returned"
    /\ optimizer.max_iter = LargeMaxIter
    /\ opt.iter_num = LargeMaxIter
    /\ opt.ret = "False"
    /\ value["x"] = Q(33, 50)

\* the state right after an update of FixedStepDescent with no line search
FixedStepUpdated ==
    /\ opt.pc = "recycle"
    /\ optimizer.method = "FixedStepDescent"
    /\ ~optimizer.line_search.set

\* the change of the design variables made by the last update
Change == [x \in KeySet(objective.dvars) |-> RSub(value[x], opt.cur_res.design_variables[x])]

\* C13: one FixedStepDescent update moves the design variables against
\* g = scale * gradient (elementwise) by the vector step_size * g / ||g||: the
\* Euclidean norm of the change is step_size whatever the magnitude of g, and
\* with one variable x moves by exactly step_size in the direction in which f
\* decreases.
C13_FixedStepChange ==
    FixedStepUpdated =>
        LET keys == objective.dvars
            g == ScaledGradient(keys, opt.scale, opt.cur_res)
            step2 == RMul(optimizer.step_size, optimizer.step_size)
        IN  /\ Dot(keys, Change, Change) = step2
            /\ \A x \in KeySet(keys) :
                  /\ RMul(RMul(Change[x], Change[x]), Dot(keys, g, g)) =
                         RMul(step2, RMul(g[x], g[x]))
                  /\ Sign(Change[x].n) = -Sign(g[x].n)
            /\ Len(keys) = 1 =>
                  /\ RAbs(Change["x"]) = optimizer.step_size
                  /\ Sign(Change["x"].n) = -Sign(opt.cur_res.gradient["x"].n)

\* an update in two dimensions with different scales and both components of the
\* gradient non-zero
C13_Witness ==
    /\ FixedStepUpdated
    /\ Len(objective.dvars) = 2
    /\ opt.scale["x"] # opt.scale["y"]
    /\ \A x \in KeySet(objective.dvars) : opt.cur_res.gradient[x].n # 0
    /\ Dot(objective.dvars, Change, Change) = RMul(optimizer.step_size, optimizer.step_size)

\* an update in one dimension from a gradient of magnitude above 1
C13_WitnessOneVariable ==
    /\ FixedStepUpdated
    /\ Len(objective.dvars) = 1
    /\ RGt(RAbs(opt.cur_res.gradient["x"]), I(1))
    /\ RAbs(Change["x"]) = optimizer.step_size

\* the potential and its force have been evaluated at pot.r, raising no error
PotEvaluated == pot.pc = "ready" /\ {"call", "force"} \subseteq pot.done /\ pot.err = {}

StrictlyOutside(r, c) == RLt(r, c.rmin) \/ RGt(r, c.rmax)

\* C16: at every separation strictly outside [rmin, rmax] the energy returned by
\* potential(r, pair), with or without shift, is 0 and the force is 0.
C16_ZeroOutsideCutoffs ==
    PotEvaluated =>
        \A i \in 1..Len(pot.r) :
            StrictlyOutside(pot.r[i], pot.coeff) => pot.u[i] = I(0) /\ pot.f[i] = I(0)

\* energy, potential(r, pair) and force have all been evaluated at pot.r
PotAllEvaluated ==
    pot.pc = "ready" /\ pot.done = {"energy", "call", "force"} /\ pot.err = {}

\* the unshifted energy at rmax
EnergyAtRmax == energy(<<pot.coeff.rmax>>, pot.coeff)[1]

\* the shift rule of potential(r, pair) and the force that ignores the shift
ShiftRule ==
    /\ \A i \in 1..Len(pot.r) :
          pot.u[i] = IF pot.shift /\ RLe(pot.r[i], pot.coeff.rmax)
                     THEN RSub(pot.e[i], EnergyAtRmax)
                     ELSE pot.e[i]
    /\ pot.f = force(pot.r, pot.coeff)

\* C17 as stated: with shift the energy at r = rmax is exactly 0, the energy at
\* r <= rmax is the unshifted energy at r minus the unshifted energy at rmax,
\* energies at r > rmax are not shifted, and the force does not depend on shift.
C17_ShiftOriginal ==
    PotAllEvaluated =>
        /\ ShiftRule
        /\ \A i \in 1..Len(pot.r) :
              (pot.shift /\ pot.r[i] = pot.coeff.rmax) => pot.u[i] = I(0)

\* C17: with shift the energy at r <= rmax is the unshifted energy at r minus the
\* unshifted energy at rmax, energies at r > rmax are not shifted, and the force
\* does not depend on shift; the energy at r = rmax is exactly 0 when the
\* unshifted energy at rmax is finite.
C17_Shift ==
    PotAllEvaluated =>
        /\ ShiftRule
        /\ \A i \in 1..Len(pot.r) :
              (pot.shift /\ pot.r[i] = pot.coeff.rmax /\ EnergyAtRmax.d # 0) => pot.u[i] = I(0)

\* a shifted table with an entry at rmax, where the unshifted energy is not 0,
\* and an entry above rmax
C17_Witness ==
    /\ PotAllEvaluated
    /\ pot.shift
    /\ Len(pot.r) = 2
    /\ pot.r[1] = pot.coeff.rmax
    /\ RLt(pot.e[1], I(0))
    /\ pot.u[1] = I(0)
    /\ RGt(pot.r[2], pot.coeff.rmax)
    /\ pot.u[2] = pot.e[2]

\* C18: at r = 0 the Lennard-Jones energy and force are +inf when 0 lies inside
\* [rmin, rmax] and 0 when it lies outside, for every rmin and rmax: r = 0 is
\* never given to the inverse-power formula, and no NaN results.
C18_ZeroSeparation ==
    PotAllEvaluated =>
        \A i \in 1..Len(pot.r) :
            pot.r[i] = I(0) =>
                IF InRange(I(0), pot.coeff.rmin, pot.coeff.rmax)
                THEN pot.e[i] = Inf /\ pot.f[i] = Inf
                ELSE pot.e[i] = I(0) /\ pot.f[i] = I(0)

\* the fmax step of regularize has been made
FmaxStepDone == tab.pc \in {"fcut", "trim", "returned"}

\* k is the first point of the table handed to regularize whose force is within
\* fmax (k counts from 1: it is the grid index c = k - 1)
FirstCompliant(k) ==
    /\ RLe(RAbs(tab.f0[k]), tab.fmax.v)
    /\ \A j \in 1..(k - 1) : ~RLe(RAbs(tab.f0[j]), tab.fmax.v)

\* C19: with fmax set and c the lowest grid index with |f[c]| <= fmax, c > 0: the
\* fmax step gives every index i < c the force f[c] and the energy
\* u[c] - f[c]*(r[i] - r[c]) and leaves the entries at indices >= c unchanged;
\* with c = 0 the step changes nothing; the rows below c of the returned table
\* hold the force f[c] and, when no fcut shift follows, these energies.
C19_FmaxExtrapolation ==
    (FmaxStepDone /\ tab.fmax.set) =>
        \A k \in 1..Len(tab.f0) :
            FirstCompliant(k) =>
                /\ \A i \in 1..Len(tab.f0) :
                      IF i < k
                      THEN /\ tab.f1[i] = tab.f0[k]
                           /\ tab.u1[i] = RSub(tab.u0[k],
                                               RMul(tab.f0[k], RSub(tab.r[i], tab.r[k])))
                      ELSE tab.f1[i] = tab.f0[i] /\ tab.u1[i] = tab.u0[i]
                /\ tab.pc = "returned" =>
                      /\ Len(tab.table) >= k
                      /\ \A i \in 1..Len(tab.table) :
                            /\ i < k => tab.table[i][3] = tab.f0[k]
                            /\ ~tab.fcut.set => tab.table[i] = <<tab.r[i], tab.u1[i], tab.f1[i]>>

\* a table returned with two rows extrapolated from the third, no fcut step
C19_Witness ==
    /\ tab.pc = "returned"
    /\ tab.fmax.set
    /\ ~tab.fcut.set
    /\ Len(tab.f0) >= 3
    /\ FirstCompliant(3)
    /\ tab.f0[3] = I(1)
    /\ tab.table[1][3] = I(1)
    /\ tab.table[1][2] # tab.u0[1]
    /\ tab.table[1][2] = RAdd(tab.u0[3], RSub(tab.r[3], tab.r[1]))

\* a table whose first point complies, left as it was by the fmax step
C19_WitnessUnchanged ==
    /\ tab.pc = "returned"
    /\ tab.fmax.set
    /\ FirstCompliant(1)
    /\ \E i \in 1..Len(tab.f0) : RGt(RAbs(tab.f0[i]), tab.fmax.v)
    /\ tab.u1 = tab.u0
    /\ tab.f1 = tab.f0

\* the fcut step of regularize has been made
FcutStepDone == tab.pc \in {"trim", "returned"}

\* k is the last point of the table, as the fmax step left it, whose force is at
\* least fcut in magnitude (k counts from 1: it is the grid index c = k - 1)
LastStrong(k) ==
    /\ RGe(RAbs(tab.f1[k]), tab.fcut.v)
    /\ \A j \in (k + 1)..Len(tab.f1) : ~RGe(RAbs(tab.f1[j]), tab.fcut.v)

\* what the fcut step does around the index c = k - 1
CutAt(k) ==
    /\ \A i \in 1..Len(tab.f1) :
          IF i > k
          THEN tab.u[i] = I(0) /\ tab.f[i] = I(0)
          ELSE tab.f[i] = tab.f1[i] /\ tab.u[i] = RSub(tab.u1[i], tab.u1[k])
    /\ tab.pc = "returned" =>
          \A i \in 1..Len(tab.table) : tab.table[i] = <<tab.r[i], tab.u[i], tab.f[i]>>

\* C20 as stated: with fcut set and c the highest grid index with |f[c]| >= fcut,
\* energy and force are 0 at every index > c, the forces at indices <= c are
\* unchanged, the same constant u[c] is subtracted from every energy at indices
\* <= c, and the energy at index c is 0.
C20_FcutOriginal ==
    (FcutStepDone /\ tab.fcut.set) =>
        \A k \in 1..Len(tab.f1) : LastStrong(k) => CutAt(k) /\ tab.u[k] = I(0)

\* C20: with fcut set and c the highest grid index with |f[c]| >= fcut, energy
\* and force are 0 at every index > c, the forces at indices <= c are unchanged
\* and the same constant u[c] is subtracted from every energy at indices <= c;
\* the energy at index c is 0 when u[c] is finite.
C20_Fcut ==
    (FcutStepDone /\ tab.fcut.set) =>
        \A k \in 1..Len(tab.f1) :
            LastStrong(k) => CutAt(k) /\ (tab.u1[k].d # 0 => tab.u[k] = I(0))

\* a table cut at its second point, with a non-zero energy there and two points
\* beyond it
C20_Witness ==
    /\ tab.pc = "returned"
    /\ tab.fcut.set
    /\ ~tab.trim
    /\ Len(tab.f1) = 4
    /\ LastStrong(2)
    /\ tab.u1[2] = I(2)
    /\ tab.u1[1] = I(-1)
    /\ tab.table[1][2] = I(-3)
    /\ tab.table[2][2] = I(0)
    /\ tab.table[4] = <<tab.r[4], I(0), I(0)>>

\* no point of the table, as the fmax step left it, has a force of at least fcut
NoStrongPoint == \A k \in 1..Len(tab.f1) : ~RGe(RAbs(tab.f1[k]), tab.fcut.v)

\* the fcut step has kept the full table, the last grid point being the cutoff:
\* no entry is zeroed, the forces are unchanged and the energies are shifted by
\* the energy of the last point
FullTableKept ==
    /\ tab.f = tab.f1
    /\ \A i \in 1..Len(tab.u1) : tab.u[i] = RSub(tab.u1[i], tab.u1[Len(tab.u1)])

\* C21: with fcut set and no grid point with |force| >= fcut, regularize emits a
\* warning and falls back to the full table: the fcut step zeroes no point and
\* the last grid point is the effective cutoff.
C21_FcutNeverReachedWarns ==
    (FcutStepDone /\ tab.fcut.set /\ NoStrongPoint) =>
        Len(tab.warnings) > 0 /\ FullTableKept

(***************************************************************************)
(* CoefficientMatrix (potential.py, lines 12-55): a matrix holding, for    *)
(* every pair of types, one slot per parameter.  A slot holds a number,    *)
(* None, or a callable that is given the matrix (a chained parameter).     *)
(***************************************************************************)
MaxCoeff == 2

Params == <<"epsilon", "sigma">>

Pairs == {"AA", "AB"}

None == [kind |-> "none"]

Num(v) == [kind |-> "num", v |-> v]

\* the callable lambda c: c[pair][param]
Chained(pair, param) == [kind |-> "callable", pair |-> pair, param |-> param]

ParamSet == {Params[i] : i \in 1..Len(Params)}

\* v(self) if callable(v) else v
Resolve(m, v) == IF v.kind = "callable" THEN m[v.pair][v.param] ELSE v

\* evaluate(pair): the parameters of the pair, ValueError when one is None
evaluate_pair(m, pair) ==
    LET params == [p \in ParamSet |-> Resolve(m, m[pair][p])]
    IN  IF \E p \in ParamSet : params[p] = None
        THEN [err |-> "ValueError", params |-> <<>>]
        ELSE [err |-> "none", params |-> params]

\* self[key][param] = value
SetSlot(m, key, param, v) == [m EXCEPT ![key][param] = v]

\* perturb leaves the value it was given in the slot
RestoreSlot_kept(m, key, param, old_value) == m

\* self[key][param] = old_value
RestoreSlot(m, key, param, old_value) == SetSlot(m, key, param, old_value)

SlotValues ==
    {None} \cup {Num(v) : v \in 1..MaxCoeff} \cup {Chained("AA", p) : p \in ParamSet}

Matrices == [Pairs -> [ParamSet -> SlotValues]]

\* the values handed to perturb: numbers, and None
PerturbValues == {None} \cup {Num(v) : v \in 1..MaxCoeff}

InitCM ==
    /\ NoOptimization
    /\ pot = NoFrame
    /\ tab = NoFrame
    /\ comm = NoFrame
    /\ cfg = NoFrame
    /\ \E m \in Matrices, pair \in Pairs, key \in Pairs,
          param \in ParamSet \cup {"delta"}, v \in PerturbValues :
          cm = [pc |-> "call", m |-> m, m0 |-> m, pair |-> pair, key |-> key,
                param |-> param, value |-> v, old_value |-> None,
                old_params |-> <<>>, new_params |-> <<>>, err |-> "none"]

\* lines 36-45: the checks, old_value and old_params
PerturbEnter ==
    /\ cm # NoFrame
    /\ cm.pc = "call"
    /\ IF cm.param \notin ParamSet
       THEN cm' = [cm EXCEPT !.pc = "raised", !.err = "KeyError"]
       ELSE LET old_value == cm.m[cm.key][cm.param]
                old == evaluate_pair(cm.m, cm.pair)
            IN  IF old_value = None
                THEN cm' = [cm EXCEPT !.pc = "raised", !.err = "ValueError"]
                ELSE IF old_value.kind = "callable"
                THEN cm' = [cm EXCEPT !.pc = "raised", !.err = "KeyError"]
                ELSE IF old.err # "none"
                THEN cm' = [cm EXCEPT !.pc = "raised", !.err = old.err]
                ELSE cm' = [cm EXCEPT !.pc = "swap", !.old_value = old_value,
                                      !.old_params = old.params]
    /\ UNCHANGED <<optvars, pot, tab, comm, cfg>>

\* lines 48-49: the swap and new_params; no handler restores the slot when
\* evaluate raises
PerturbSwap ==
    /\ cm # NoFrame
    /\ cm.pc = "swap"
    /\ LET swapped == SetSlot(cm.m, cm.key, cm.param, cm.value)
           new == evaluate_pair(swapped, cm.pair)
       IN  IF new.err # "none"
           THEN cm' = [cm EXCEPT !.pc = "raised", !.err = new.err, !.m = swapped]
           ELSE cm' = [cm EXCEPT !.pc = "restore", !.m = swapped, !.new_params = new.params]
    /\ UNCHANGED <<optvars, pot, tab, comm, cfg>>

\* lines 52-54: the slot is restored and the pair of parameters returned
PerturbRestore ==
    /\ cm # NoFrame
    /\ cm.pc = "restore"
    /\ cm' = [cm EXCEPT !.pc = "returned",
                        !.m = RestoreSlot(cm.m, cm.key, cm.param, cm.old_value)]
    /\ UNCHANGED <<optvars, pot, tab, comm, cfg>>

NextCM == PerturbEnter \/ PerturbSwap \/ PerturbRestore

SpecCM == InitCM /\ [][NextCM]_vars

PerturbReturned == cm # NoFrame /\ cm.pc = "returned"

\* C22: once perturb has returned, old_params is evaluate(pair) on the matrix
\* as it was at the call, new_params is evaluate(pair) on that matrix with
\* slot (key, param) holding value, and the matrix is again the matrix of the
\* call: slot (key, param) holds its original value and no other slot differs.
C22_PerturbRestores ==
    PerturbReturned =>
        /\ cm.old_params = evaluate_pair(cm.m0, cm.pair).params
        /\ cm.new_params = evaluate_pair(SetSlot(cm.m0, cm.key, cm.param, cm.value), cm.pair).params
        /\ cm.m[cm.key][cm.param] = cm.m0[cm.key][cm.param]
        /\ \A k \in Pairs, p \in ParamSet : cm.m[k][p] = cm.m0[k][p]

\* perturb returned after changing a parameter that the pair sees through a
\* chained slot of another key
C22_Witness ==
    /\ PerturbReturned
    /\ cm.key # cm.pair
    /\ cm.new_params # cm.old_params
    /\ cm.value # cm.m0[cm.key][cm.param]

(***************************************************************************)
(* Communicator.bcast_numpy (mpi.py, lines 186-262) on a communicator of   *)
(* two or more ranks.  A broadcast is a collective: the k-th collective of *)
(* a rank is matched with the k-th collective of the root, whatever the    *)
(* ranks pass to it, and a rank other than the root leaves it only once    *)
(* the root has entered it.  Every rank runs the same call with the same   *)
(* root; the ranks interleave freely between collectives.                  *)
(***************************************************************************)
MaxRanks == 3

MaxShape == 2

DTypes == {"float64", "int32"}

Shapes == {<<n>> : n \in 1..MaxShape}

NdArray(id, shape, dtype, contents) ==
    [kind |-> "ndarray", id |-> id, shape |-> shape, dtype |-> dtype, contents |-> contents]

\* what the root broadcasts: 5., 6., ...
RootContents(shape) == [i \in 1..shape[1] |-> 4 + i]

Zeros(shape) == [i \in 1..shape[1] |-> 0]

\* np.empty(shape, dtype=dtype): a new object, its contents not yet written
Empty(id, shape, dtype) == NdArray(id, shape, dtype, [i \in 1..shape[1] |-> -1])

\* every rank other than the root allocates
NeedsAlloc_always(data, shape, dtype) == TRUE

\* lines 252-255: alloc, with AttributeError for an input that is not an array
NeedsAlloc(data, shape, dtype) ==
    IF data.kind # "ndarray" THEN TRUE ELSE data.shape # shape \/ data.dtype # dtype

\* the inputs of a rank that is not the root: None, or an array of zeros
RankInputs(id) == {None} \cup {NdArray(id, s, t, Zeros(s)) : s \in Shapes, t \in DTypes}

RankSet(size) == 0..(size - 1)

InitMPI ==
    /\ NoOptimization
    /\ pot = NoFrame
    /\ tab = NoFrame
    /\ cm = NoFrame
    /\ cfg = NoFrame
    /\ \E size \in 2..MaxRanks :
          \E root \in RankSet(size), s \in Shapes, t \in DTypes :
             \E inputs \in [RankSet(size) -> RankInputs(0)] :
                LET input(r) == IF r = root THEN NdArray(r, s, t, RootContents(s))
                                ELSE IF inputs[r] = None THEN None
                                ELSE [inputs[r] EXCEPT !.id = r]
                IN  /\ inputs[root] = None
                    /\ comm = [size |-> size, root |-> root, net |-> <<>>,
                               rank |-> [r \in RankSet(size) |->
                                           [pc |-> "shape", input |-> input(r), data |-> input(r),
                                            shape |-> None, dtype |-> None, log |-> <<>>]]]

\* self.comm.bcast / self.comm.Bcast as the k-th collective of rank r: the
\* root hands over its payload, any other rank waits for the root's k-th
Entered(r, k) == r = comm.root \/ Len(comm.net) >= k

Received(r, k, payload) == IF r = comm.root THEN payload ELSE comm.net[k]

Posted(r, payload) == IF r = comm.root THEN Append(comm.net, payload) ELSE comm.net

\* lines 241-247: shape = self.bcast(shape, root)
BcastShape ==
    /\ comm # NoFrame
    /\ \E r \in RankSet(comm.size) :
          LET me == comm.rank[r]
              shape == IF r = comm.root THEN me.data.shape ELSE None
          IN  /\ me.pc = "shape"
              /\ Entered(r, 1)
              /\ comm' = [comm EXCEPT !.net = Posted(r, shape),
                                      !.rank[r] = [me EXCEPT !.pc = "dtype",
                                                             !.shape = Received(r, 1, shape),
                                                             !.log = Append(me.log, "shape")]]
    /\ UNCHANGED <<optvars, pot, tab, cm, cfg>>

\* lines 248-257: dtype = self.bcast(dtype, root), then the allocation
BcastDtype ==
    /\ comm # NoFrame
    /\ \E r \in RankSet(comm.size) :
          LET me == comm.rank[r]
              dtype == IF r = comm.root THEN me.data.dtype ELSE None
              got == Received(r, 2, dtype)
              data == IF r # comm.root /\ NeedsAlloc(me.data, me.shape, got)
                      THEN Empty(comm.size + r, me.shape, got)
                      ELSE me.data
          IN  /\ me.pc = "dtype"
              /\ Entered(r, 2)
              /\ comm' = [comm EXCEPT !.net = Posted(r, dtype),
                                      !.rank[r] = [me EXCEPT !.pc = "data",
                                                             !.dtype = got,
                                                             !.data = data,
                                                             !.log = Append(me.log, "dtype")]]
    /\ UNCHANGED <<optvars, pot, tab, cm, cfg>>

\* lines 260-262: self.comm.Bcast(data, root) fills the buffer; return data
BcastData ==
    /\ comm # NoFrame
    /\ \E r \in RankSet(comm.size) :
          LET me == comm.rank[r]
              got == Received(r, 3, me.data.contents)
          IN  /\ me.pc = "data"
              /\ Entered(r, 3)
              /\ comm' = [comm EXCEPT !.net = Posted(r, me.data.contents),
                                      !.rank[r] = [me EXCEPT !.pc = "returned",
                                                             !.data = [me.data EXCEPT !.contents = got],
                                                             !.log = Append(me.log, "data")]]
    /\ UNCHANGED <<optvars, pot, tab, cm, cfg>>

NextMPI == BcastShape \/ BcastDtype \/ BcastData

SpecMPI == InitMPI /\ [][NextMPI]_vars

AllReturned == comm # NoFrame /\ \A r \in RankSet(comm.size) : comm.rank[r].pc = "returned"

RootArray == comm.rank[comm.root].input

SameAsRoot(a) ==
    /\ a.shape = RootArray.shape
    /\ a.dtype = RootArray.dtype
    /\ a.contents = RootArray.contents

\* the input of rank r already has the shape and the dtype of the root's array
Preallocated(r) ==
    /\ comm.rank[r].input # None
    /\ comm.rank[r].input.shape = RootArray.shape
    /\ comm.rank[r].input.dtype = RootArray.dtype

InputIds == {comm.rank[r].input.id : r \in {q \in RankSet(comm.size) : comm.rank[q].input # None}}

\* C23: once every rank of a communicator of two or more ranks has returned
\* from bcast_numpy, the array returned on each rank has the shape, dtype and
\* contents of the root's array; every rank has performed the collectives
\* shape, dtype, data in that order; a rank other than the root whose input
\* had the root's shape and dtype returns that very object, and any other
\* rank than the root returns an array that was no rank's input.
C23_BcastNumpy ==
    AllReturned =>
        \A r \in RankSet(comm.size) :
            LET me == comm.rank[r]
            IN  /\ SameAsRoot(me.data)
                /\ me.log = <<"shape", "dtype", "data">>
                /\ r # comm.root =>
                      IF Preallocated(r)
                      THEN me.data.id = me.input.id
                      ELSE me.data.id \notin InputIds

\* three ranks have returned: one passed None, one a buffer of the right
\* shape and dtype, and the root is not rank 0
C23_Witness ==
    /\ AllReturned
    /\ comm.size = 3
    /\ comm.root # 0
    /\ \E r \in RankSet(comm.size) : r # comm.root /\ comm.rank[r].input = None
    /\ \E r \in RankSet(comm.size) : r # comm.root /\ Preallocated(r)

\* a rank returned after replacing a buffer of the wrong dtype
C23_WitnessMismatched ==
    /\ AllReturned
    /\ \E r \in RankSet(comm.size) :
          /\ r # comm.root
          /\ comm.rank[r].input # None
          /\ comm.rank[r].input.shape = RootArray.shape
          /\ comm.rank[r].input.dtype # RootArray.dtype
          /\ comm.rank[r].data.id # comm.rank[r].input.id

(***************************************************************************)
(* Termination of optimize.  Every step of a call strictly decreases a     *)
(* natural number (Variant) and a call that has not ended can always take  *)
(* its next step, so every call ends after finitely many steps.            *)
(***************************************************************************)
Terminated == opt.pc \in {"returned", "raised"}

\* an update has been made and not yet counted by line 439
InUpdate == opt.pc \in {"line_search", "in_find", "recycle"}

UpdatesDone == opt.iter_num + (IF InUpdate THEN 1 ELSE 0)

UpdateOnlyWhileNeeded ==
    opt.pc = "body" =>
        /\ has_converged(optimizer.abs_tol, opt.cur_res) = "False"
        /\ opt.iter_num < optimizer.max_iter

ComputeCount ==
    (~optimizer.line_search.set /\ opt.pc \in {"while", "body", "return", "returned", "raised"}
        /\ opt.ret # "None")
        => computeCalls = 1 + opt.iter_num

\* the evaluations a line search may still make
LineSearchBudget == IF optimizer.line_search.set THEN optimizer.line_search.max_iter ELSE 0

\* steps left in the call of find in progress
FindVariant ==
    IF ls = NoFrame THEN 0
    ELSE CASE ls.pc = "call" -> LineSearchBudget + 4
           [] ls.pc = "loop" -> (LineSearchBudget - ls.iter_num) + 3
           [] ls.pc = "restore" -> 2
           [] ls.pc = "returned" -> 1
           [] OTHER -> 0

\* steps left in the current pass of the loop of optimize
PassVariant ==
    CASE opt.pc = "while" -> LineSearchBudget + 10
      [] opt.pc = "body" -> LineSearchBudget + 9
      [] opt.pc = "line_search" -> LineSearchBudget + 8
      [] opt.pc = "in_find" -> 2 + FindVariant
      [] opt.pc = "recycle" -> 1
      [] opt.pc = "return" -> 1
      [] OTHER -> 0

Variant ==
    IF opt.pc = "call" THEN (optimizer.max_iter + 1) * (LineSearchBudget + 11)
    ELSE (optimizer.max_iter - opt.iter_num) * (LineSearchBudget + 11) + PassVariant

\* a call that has not ended has a next statement to execute
CanStep ==
    \/ opt.pc \in {"call", "while", "body", "recycle", "return"}
    \/ opt.pc = "line_search" /\ ls = NoFrame
    \/ opt.pc = "in_find" /\ ls.pc \in {"call", "loop", "restore", "returned"}

\* C24: a call of optimize always ends (it returns, or raises the KeyError of
\* has_converged): every step decreases Variant, which is never negative, and
\* a call that has not ended can step.  A descent update starts only when the
\* current result is not converged and fewer than max_iter updates are done,
\* so never more than max_iter updates are made, none from a converged
\* initial point, and without a line search compute has been called 1 + k
\* times when k updates are done (on an objective with design variables).
C24_OptimizeTerminates ==
    /\ [](UpdateOnlyWhileNeeded /\ UpdatesDone <= optimizer.max_iter /\ ComputeCount)
    /\ [](Variant >= 0 /\ (~Terminated => CanStep))
    /\ [][Variant' < Variant]_vars

\* optimize used all of its max_iter > 1 updates without a line search
C24_Witness ==
    /\ opt.pc = "returned"
    /\ ~optimizer.line_search.set
    /\ optimizer.max_iter > 1
    /\ opt.iter_num = optimizer.max_iter
    /\ computeCalls = 1 + optimizer.max_iter

\* optimize returned without an update from a converged initial point
C24_WitnessNoUpdate ==
    /\ opt.pc = "returned"
    /\ opt.ret = "True"
    /\ opt.iter_num = 0
    /\ computeCalls = 1

(***************************************************************************)
(* The interpolation loop of LineSearch.find.                              *)
(***************************************************************************)
\* one pass of the loop of lines 243-261 has been made
IterateStep == ls.pc = "loop" /\ ls'.pc = "loop" /\ ls'.iter_num = ls.iter_num + 1

\* the loop is left (line 263)
LoopExitStep == ls.pc = "loop" /\ ls'.pc = "restore"

\* (s0*t1 - s1*t0)/(t1 - t0)
SecantStep(s, t) == RDiv(RSub(RMul(s[1], t[2]), RMul(s[2], t[1])), RSub(t[2], t[1]))

WithinTolerance(f) == RLt(RAbs(f.new_target), f.tol)

PassAsClaimed ==
    IterateStep =>
        LET step == SecantStep(ls.steps, ls.targets)
            keys == objective.dvars
        IN  /\ computeCalls' = computeCalls + 1
            /\ \A k \in KeySet(keys) :
                  value'[k] = RAdd(ls.start.design_variables[k], RMul(step, ls.d[k]))
            /\ ls'.new_res = compute(keys, value')
            /\ ls'.new_target = Target(keys, ls.d, ls'.new_res)
            /\ IF RGt(ls'.new_target, I(0))
               THEN ls'.steps = <<step, ls.steps[2]>> /\ ls'.targets = <<ls'.new_target, ls.targets[2]>>
               ELSE ls'.steps = <<ls.steps[1], step>> /\ ls'.targets = <<ls.targets[1], ls'.new_target>>
            /\ ~WithinTolerance(ls)
            /\ ls.iter_num < optimizer.line_search.max_iter

ExitAsClaimed ==
    LoopExitStep =>
        /\ WithinTolerance(ls) \/ ls.iter_num = optimizer.line_search.max_iter
        /\ ls.iter_num >= 1
        /\ ls.iter_num <= optimizer.line_search.max_iter
        /\ ls'.result = ls.new_res

\* C25: when the end point is not accepted, every pass of the loop of find
\* calls compute once at start + step*d with step = (s0*t1 - s1*t0)/(t1 - t0)
\* and replaces the lower bracket when the new target is > 0 and the upper
\* bracket otherwise; the loop goes on only while |new target| is not below
\* rel_tol*|target(start)| and fewer than max_iter passes are made, and is left
\* exactly when |new target| < rel_tol*|target(start)| or max_iter passes are
\* made, after at least one and at most max_iter passes, with the result of the
\* last evaluation.
C25_FindInterpolates == [][PassAsClaimed /\ ExitAsClaimed]_vars

(***************************************************************************)
(* The property setters of LineSearch (method.py, lines 269-295) and of    *)
(* Optimizer and SteepestDescent (lines 129-140, 443-495): a LineSearch    *)
(* and a SteepestDescent object, and the Python values assigned to their   *)
(* properties.  An assignment that raises stores nothing.                  *)
(***************************************************************************)
PyInt(i) == [kind |-> "int", v |-> I(i)]

PyFloat(q) == [kind |-> "float", v |-> q]

PyDict(f) == [kind |-> "dict", v |-> f]

LineSearchObject == [kind |-> "LineSearch"]

IsNumber(v) == v.kind \in {"int", "float"}

Stored(v) == [err |-> "none", v |-> v]

Raised(e, old) == [err |-> e, v |-> old]

\* lines 289-295 and 448-454
set_max_iter(old, v) ==
    IF v.kind # "int" THEN Raised("TypeError", old)
    ELSE IF RLt(v.v, I(1)) THEN Raised("ValueError", old)
    ELSE Stored(v)

\* lines 274-282: the comparison of a value that is not a number raises TypeError
set_rel_tol(old, v) ==
    IF ~IsNumber(v) THEN Raised("TypeError", old)
    ELSE IF RLe(v.v, I(0)) \/ RGe(v.v, I(1)) THEN Raised("ValueError", old)
    ELSE Stored(v)

\* lines 461-465
set_step_size(old, v) ==
    IF ~IsNumber(v) THEN Raised("TypeError", old)
    ELSE IF RLe(v.v, I(0)) THEN Raised("ValueError", old)
    ELSE Stored(v)

\* lines 474-484: dict(value) succeeds for a dict and raises TypeError for a
\* number, for which the scalar test is made; None fails in that test
set_scale(old, v) ==
    IF v.kind = "dict"
    THEN IF \E k \in DOMAIN v.v : RLe(v.v[k], I(0)) THEN Raised("ValueError", old) ELSE Stored(v)
    ELSE IF ~IsNumber(v) THEN Raised("TypeError", old)
    ELSE IF RLe(v.v, I(0)) THEN Raised("ValueError", old)
    ELSE Stored(v)

\* lines 129-140
set_abs_tol(old, v) ==
    IF v.kind = "dict"
    THEN IF \E k \in DOMAIN v.v : RLt(v.v[k], I(0)) THEN Raised("ValueError", old) ELSE Stored(v)
    ELSE IF ~IsNumber(v) THEN Raised("TypeError", old)
    ELSE IF RLt(v.v, I(0)) THEN Raised("ValueError", old)
    ELSE Stored(v)

\* lines 491-495
set_line_search(old, v) ==
    IF v # None /\ v.kind # "LineSearch" THEN Raised("TypeError", old) ELSE Stored(v)

\* the values assigned
PyValues ==
    {PyInt(0), PyInt(2), PyFloat(Q(-1, 2)), PyFloat(Q(1, 2)), PyFloat(NaN),
     PyDict([x \in {VarNames[1]} |-> Q(1, 2)]), PyDict([x \in {VarNames[1]} |-> Q(-1, 2)]),
     None, LineSearchObject}

\* LineSearch(rel_tol=0.25, max_iter=1) and
\* SteepestDescent(abs_tol=0.0, max_iter=1, step_size=1.0)
InitSet ==
    /\ NoOptimization
    /\ pot = NoFrame
    /\ tab = NoFrame
    /\ cm = NoFrame
    /\ comm = NoFrame
    /\ cfg = [ls_rel_tol |-> PyFloat(Q(1, 4)), ls_max_iter |-> PyInt(1),
              abs_tol |-> PyFloat(I(0)), max_iter |-> PyInt(1), step_size |-> PyFloat(I(1)),
              scale |-> PyFloat(I(1)), line_search |-> None,
              last |-> [attr |-> "none", value |-> None, err |-> "none"]]

Assigned(attr, v, r) == [attr |-> attr, value |-> v, err |-> r.err]

SetLineSearchRelTol ==
    /\ cfg # NoFrame
    /\ \E v \in PyValues :
          LET r == set_rel_tol(cfg.ls_rel_tol, v)
          IN  cfg' = [cfg EXCEPT !.ls_rel_tol = r.v, !.last = Assigned("LineSearch.rel_tol", v, r)]
    /\ UNCHANGED <<optvars, pot, tab, cm, comm>>

SetLineSearchMaxIter ==
    /\ cfg # NoFrame
    /\ \E v \in PyValues :
          LET r == set_max_iter(cfg.ls_max_iter, v)
          IN  cfg' = [cfg EXCEPT !.ls_max_iter = r.v, !.last = Assigned("LineSearch.max_iter", v, r)]
    /\ UNCHANGED <<optvars, pot, tab, cm, comm>>

SetAbsTol ==
    /\ cfg # NoFrame
    /\ \E v \in PyValues :
          LET r == set_abs_tol(cfg.abs_tol, v)
          IN  cfg' = [cfg EXCEPT !.abs_tol = r.v, !.last = Assigned("abs_tol", v, r)]
    /\ UNCHANGED <<optvars, pot, tab, cm, comm>>

SetMaxIter ==
    /\ cfg # NoFrame
    /\ \E v \in PyValues :
          LET r == set_max_iter(cfg.max_iter, v)
          IN  cfg' = [cfg EXCEPT !.max_iter = r.v, !.last = Assigned("max_iter", v, r)]
    /\ UNCHANGED <<optvars, pot, tab, cm, comm>>

SetStepSize ==
    /\ cfg # NoFrame
    /\ \E v \in PyValues :
          LET r == set_step_size(cfg.step_size, v)
          IN  cfg' = [cfg EXCEPT !.step_size = r.v, !.last = Assigned("step_size", v, r)]
    /\ UNCHANGED <<optvars, pot, tab, cm, comm>>

SetScale ==
    /\ cfg # NoFrame
    /\ \E v \in PyValues :
          LET r == set_scale(cfg.scale, v)
          IN  cfg' = [cfg EXCEPT !.scale = r.v, !.last = Assigned("scale", v, r)]
    /\ UNCHANGED <<optvars, pot, tab, cm, comm>>

SetLineSearch ==
    /\ cfg # NoFrame
    /\ \E v \in PyValues :
          LET r == set_line_search(cfg.line_search, v)
          IN  cfg' = [cfg EXCEPT !.line_search = r.v, !.last = Assigned("line_search", v, r)]
    /\ UNCHANGED <<optvars, pot, tab, cm, comm>>

NextSet ==
    \/ SetLineSearchRelTol
    \/ SetLineSearchMaxIter
    \/ SetAbsTol
    \/ SetMaxIter
    \/ SetStepSize
    \/ SetScale
    \/ SetLineSearch

SpecSet == InitSet /\ [][NextSet]_vars

\* every value of a number or of a dict satisfies P
AllValues(v, P(_)) ==
    IF v.kind = "dict" THEN \A k \in DOMAIN v.v : P(v.v[k]) ELSE IsNumber(v) /\ P(v.v)

Positive(q) == RGt(q, I(0))

NonNegative(q) == RGe(q, I(0))

InsideUnit(q) == RGt(q, I(0)) /\ RLt(q, I(1))

AtLeastOne(q) == RGe(q, I(1))

\* the stored configuration is in the claimed ranges
StoredValid ==
    /\ AllValues(cfg.ls_max_iter, AtLeastOne)
    /\ AllValues(cfg.max_iter, AtLeastOne)
    /\ AllValues(cfg.step_size, Positive)
    /\ AllValues(cfg.scale, Positive)
    /\ AllValues(cfg.abs_tol, NonNegative)
    /\ AllValues(cfg.ls_rel_tol, InsideUnit)

Settings(c) == [c EXCEPT !.last = [attr |-> "none", value |-> None, err |-> "none"]]

\* the error the claim gives for assigning v to attr ("any" where it names none)
ClaimedError(attr, v) ==
    CASE attr \in {"LineSearch.max_iter", "max_iter"} ->
            IF v.kind # "int" THEN "TypeError"
            ELSE IF ~AllValues(v, AtLeastOne) THEN "ValueError" ELSE "none"
      [] attr = "step_size" ->
            IF ~IsNumber(v) THEN "any"
            ELSE IF ~AllValues(v, Positive) THEN "ValueError" ELSE "none"
      [] attr = "scale" ->
            IF ~IsNumber(v) /\ v.kind # "dict" THEN "any"
            ELSE IF ~AllValues(v, Positive) THEN "ValueError" ELSE "none"
      [] attr = "abs_tol" ->
            IF ~IsNumber(v) /\ v.kind # "dict" THEN "any"
            ELSE IF ~AllValues(v, NonNegative) THEN "ValueError" ELSE "none"
      [] attr = "LineSearch.rel_tol" ->
            IF ~IsNumber(v) THEN "any"
            ELSE IF ~AllValues(v, InsideUnit) THEN "ValueError" ELSE "none"
      [] attr = "line_search" ->
            IF v # None /\ v.kind # "LineSearch" THEN "TypeError" ELSE "none"
      [] OTHER -> "none"

AssignmentAsClaimed ==
    LET l == cfg'.last
        e == ClaimedError(l.attr, l.value)
    IN  /\ IF e = "any" THEN l.err # "none" ELSE l.err = e
        /\ l.err # "none" => Settings(cfg') = Settings(cfg)

\* C26: every assignment of an invalid value to a property raises the error
\* the claim names (TypeError for a max_iter that is not an int and for a
\* line_search that is neither None nor a LineSearch; ValueError for
\* max_iter < 1, step_size <= 0, a scale <= 0, an abs_tol < 0 and a rel_tol
\* outside 0 < rel_tol < 1) and leaves every setting as it was; so the stored
\* configuration always has max_iter >= 1, step_size > 0, scale > 0,
\* abs_tol >= 0 and 0 < rel_tol < 1.
C26_SettersValidate == [][AssignmentAsClaimed]_vars /\ []StoredValid

(***************************************************************************)
(* The variables and the result held by optimize.                          *)
(***************************************************************************)
\* the loop condition is about to be evaluated, or optimize has returned
\* True or False
AtLoopTestOrReturn ==
    \/ opt.pc \in {"while", "return"}
    \/ opt.pc = "returned" /\ opt.ret \in {"True", "False"}

\* C27: whenever optimize evaluates its loop condition, and when it has
\* returned True or False, the live value of every design variable is the
\* value recorded for it in cur_res, without a line search and with one.
C27_LiveValuesMatchCurRes ==
    AtLoopTestOrReturn =>
        \A x \in KeySet(objective.dvars) : value[x] = opt.cur_res.design_variables[x]

\* the loop condition is evaluated after one update that a line search
\* refined: find made an evaluation of its own and its result was adopted
C27_Witness ==
    /\ opt.pc = "while"
    /\ optimizer.line_search.set
    /\ opt.iter_num = 1
    /\ opt.line_res = opt.cur_res
    /\ computeCalls > 2

\* optimize returned after updates without a line search
C27_WitnessPlain ==
    /\ opt.pc = "returned"
    /\ opt.ret = "False"
    /\ ~optimizer.line_search.set
    /\ opt.iter_num = 2

\* find is in its loop and was entered with target(start) > 0
InLoopFromDescent ==
    /\ ls # NoFrame
    /\ ls.pc = "loop"
    /\ RGt(Target(objective.dvars, ls.d, ls.start), I(0))

BracketOrdered ==
    /\ RGt(ls.targets[1], I(0))
    /\ RLe(ls.targets[2], I(0))
    /\ RLe(I(0), ls.steps[1])
    /\ RLe(ls.steps[1], ls.steps[2])
    /\ RLe(ls.steps[2], I(1))

\* the step the next pass computes: its denominator is not zero and it lies in
\* the bracket
NextStepInBracket ==
    FindContinues(ls, optimizer.line_search.max_iter) =>
        LET step == SecantStep(ls.steps, ls.targets)
        IN  /\ RSub(ls.targets[2], ls.targets[1]) # I(0)
            /\ RLe(ls.steps[1], step)
            /\ RLe(step, ls.steps[2])

\* the point a pass evaluates is start + s*d for some 0 <= s <= 1
EvaluatedOnSegment ==
    (IterateStep /\ InLoopFromDescent) =>
        LET s == SecantStep(ls.steps, ls.targets)
        IN  /\ RLe(I(0), s)
            /\ RLe(s, I(1))
            /\ \A k \in KeySet(objective.dvars) :
                  value'[k] = RAdd(ls.start.design_variables[k], RMul(s, ls.d[k]))
            /\ ls'.new_res.design_variables = value'

\* C28: in the loop of a find entered with target(start) > 0, targets[0] > 0,
\* targets[1] <= 0 and 0 <= steps[0] <= steps[1] <= 1 always hold, every step
\* the loop computes has a non-zero denominator and lies in
\* [steps[0], steps[1]], and every point the objective is evaluated at is
\* start + s*d with 0 <= s <= 1.
C28_BracketInvariant ==
    /\ [](InLoopFromDescent => (BracketOrdered /\ NextStepInBracket))
    /\ [][EvaluatedOnSegment]_vars

\* after two passes of the loop both brackets have been replaced
C28_Witness ==
    /\ InLoopFromDescent
    /\ ls.iter_num = 2
    /\ RGt(ls.steps[1], I(0))
    /\ RLt(ls.steps[2], I(1))

\* the loop is about to compute a step inside a bracket that one pass narrowed
C28_WitnessNextStep ==
    /\ InLoopFromDescent
    /\ ls.iter_num = 1
    /\ FindContinues(ls, optimizer.line_search.max_iter)

(***************************************************************************)
(* FixedStepDescent.descent_amount inside optimize.                        *)
(***************************************************************************)
\* the scaled gradient that line 423 hands to descent_amount
GradY == ScaledGradient(objective.dvars, opt.scale, opt.cur_res)

ZeroGradient(result) == \A x \in KeySet(objective.dvars) : result.gradient[x] = I(0)

C30_WitnessSecondUpdate ==
    /\ opt.pc = "body"
    /\ optimizer.method = "FixedStepDescent"
    /\ opt.iter_num = 1

(***************************************************************************)
(* optimize with a line search in double arithmetic.  A double is held as  *)
(* m * 2^e with m odd (or m = 0): the sign and the significand as an       *)
(* integer, and the exponent.  The results of this section have            *)
(* significands of a few bits, so that products are exact; a difference    *)
(* a - b is the double nearest to the exact difference, which is a itself  *)
(* when |b| is below a quarter of the spacing of the doubles at a (53-bit  *)
(* significands).  The exponent range is not limited.                      *)
(***************************************************************************)
RECURSIVE Dy(_, _)
Dy(m, e) ==
    IF m = 0 THEN [m |-> 0, e |-> 0]
    ELSE IF m % 2 = 0 THEN Dy(m \div 2, e + 1)
    ELSE [m |-> m, e |-> e]

RECURSIVE BitLen(_)
BitLen(n) == IF n = 0 THEN 0 ELSE 1 + BitLen(n \div 2)

\* floor(log2 |a|) of a double that is not 0
Msb(a) == a.e + BitLen(Abs(a.m)) - 1

FNeg(a) == [m |-> -a.m, e |-> a.e]

FAbs(a) == [m |-> Abs(a.m), e |-> a.e]

FMul(a, b) == Dy(a.m * b.m, a.e + b.e)

\* a - b in exact arithmetic
FSub_exact(a, b) ==
    IF b.m = 0 THEN a
    ELSE IF a.m = 0 THEN FNeg(b)
    ELSE LET e == IF a.e < b.e THEN a.e ELSE b.e
         IN  Dy(a.m * Pow2(a.e - e) - b.m * Pow2(b.e - e), e)

\* a - b rounded to the nearest double
FSub(a, b) ==
    IF b.m = 0 THEN a
    ELSE IF a.m = 0 THEN FNeg(b)
    ELSE IF Msb(b) <= Msb(a) - 55 THEN a
    ELSE IF Msb(a) <= Msb(b) - 55 THEN FNeg(b)
    ELSE FSub_exact(a, b)

FGt(a, b) == FSub(a, b).m > 0

FLt(a, b) == FGt(b, a)

\* QuadraticObjective.compute: the gradient 2*(x.value-1) and the recorded value
float_compute(v) ==
    [keys |-> Keys1,
     gradient |-> [k \in KeySet(Keys1) |-> FMul(Dy(2, 0), FSub(v[k], Dy(1, 0)))],
     design_variables |-> v]

\* has_converged for a scalar abs_tol: no abs(grad) > tol
float_has_converged(tol, result) ==
    \A k \in KeySet(Keys1) : ~FGt(FAbs(result.gradient[k]), tol)

\* lines 422-427 of a SteepestDescent: x - step_size*(scale*gradient)
float_UpdatedValues(o, cur_res) ==
    [k \in KeySet(Keys1) |->
        FSub(cur_res.design_variables[k],
             FMul(o.step_size, FMul(o.scale, cur_res.gradient[k])))]

\* lines 222-237 and 265-267 of find on one variable: the checks and the
\* acceptance of the end point ("loop" when the search would interpolate)
float_find(o, start, end) ==
    LET k == Keys1[1]
        d == FSub(end.design_variables[k], start.design_variables[k])
        t0 == FNeg(FMul(d, start.gradient[k]))
        t1 == FNeg(FMul(d, end.gradient[k]))
        tol == FMul(o.line_search.rel_tol, FAbs(t0))
    IN  IF d.m = 0 THEN "ValueError: start and end must be different"
        ELSE IF t0.m < 0 THEN "ValueError: must be a descent direction"
        ELSE IF t1.m > 0 \/ FLt(FAbs(t1), tol) THEN "end"
        ELSE "loop"

\* steps of ordinary size, and steps below the resolution of a double near 1
FloatSteps == {Dy(1, -2), Dy(1, -3), Dy(1, -60), Dy(1, -61)}

FloatScales == {Dy(1, 0), Dy(1, -1)}

\* starts 1 + 2^j and 1 - 2^j, and starts a little off them
FloatPoints == {Dy(3, 0), Dy(2, 0), Dy(3, -1), Dy(0, 0), Dy(-1, 0), Dy(1, -1), Dy(5, 0), Dy(-3, 0)}

FloatTols == {Dy(0, 0), Dy(1, 0)}

InitFloat ==
    /\ objective = [dvars |-> Keys1]
    /\ \E x \in FloatPoints : value = [k \in KeySet(Keys1) |-> x]
    /\ \E a \in FloatTols, n \in 1..MaxIter, step \in FloatSteps, sc \in FloatScales,
          m \in 1..MaxIter :
          optimizer = [method |-> "SteepestDescent", abs_tol |-> a, max_iter |-> n,
                       step_size |-> step, scale |-> sc,
                       line_search |-> [set |-> TRUE, rel_tol |-> Dy(1, -1), max_iter |-> m]]
    /\ opt = [pc |-> "call", iter_num |-> 0, cur_res |-> NoResult, next_res |-> NoResult,
              line_res |-> NoResult, ret |-> "none", err |-> "none"]
    /\ ls = NoFrame
    /\ hc = NoFrame
    /\ computeCalls = 0
    /\ pot = NoFrame
    /\ tab = NoFrame
    /\ cm = NoFrame
    /\ comm = NoFrame
    /\ cfg = NoFrame

\* lines 404-420
FloatOptimizeEnter ==
    /\ opt.pc = "call"
    /\ opt' = [opt EXCEPT !.pc = "while", !.cur_res = float_compute(value)]
    /\ computeCalls' = computeCalls + 1
    /\ UNCHANGED <<objective, value, optimizer, ls, hc, pot, tab, cm, comm, cfg>>

\* line 421
FloatOptimizeWhile ==
    /\ opt.pc = "while"
    /\ opt' = [opt EXCEPT !.pc = IF ~float_has_converged(optimizer.abs_tol, opt.cur_res)
                                    /\ opt.iter_num < optimizer.max_iter
                                 THEN "body" ELSE "return"]
    /\ UNCHANGED <<objective, value, optimizer, ls, hc, computeCalls, pot, tab, cm, comm, cfg>>

\* lines 422-428
FloatOptimizeUpdate ==
    /\ opt.pc = "body"
    /\ LET written == float_UpdatedValues(optimizer, opt.cur_res)
       IN  /\ value' = written
           /\ opt' = [opt EXCEPT !.next_res = float_compute(written), !.pc = "line_search"]
    /\ computeCalls' = computeCalls + 1
    /\ UNCHANGED <<objective, optimizer, ls, hc, pot, tab, cm, comm, cfg>>

\* lines 431-435: the call of find, which raises, or returns the end point with
\* the variables as it found them
FloatOptimizeLineSearch ==
    /\ opt.pc = "line_search"
    /\ LET r == float_find(optimizer, opt.cur_res, opt.next_res)
       IN  IF r = "end"
           THEN /\ opt' = [opt EXCEPT !.line_res = opt.next_res, !.pc = "recycle"]
                /\ ls' = [pc |-> "returned", caller |-> "optimize", err |-> "none"]
           ELSE IF r = "loop"
           THEN /\ opt' = [opt EXCEPT !.pc = "in_find"]
                /\ ls' = [pc |-> "loop", caller |-> "optimize", err |-> "none"]
           ELSE /\ opt' = [opt EXCEPT !.pc = "raised", !.err = r]
                /\ ls' = [pc |-> "raised", caller |-> "optimize", err |-> r]
    /\ UNCHANGED <<objective, value, optimizer, hc, computeCalls, pot, tab, cm, comm, cfg>>

\* lines 438-439
FloatOptimizeRecycle ==
    /\ opt.pc = "recycle"
    /\ opt' = [opt EXCEPT !.cur_res = opt.next_res, !.iter_num = opt.iter_num + 1,
                          !.pc = "while"]
    /\ ls' = NoFrame
    /\ UNCHANGED <<objective, value, optimizer, hc, computeCalls, pot, tab, cm, comm, cfg>>

\* line 441
FloatOptimizeReturn ==
    /\ opt.pc = "return"
    /\ opt' = [opt EXCEPT !.pc = "returned",
                          !.ret = IF float_has_converged(optimizer.abs_tol, opt.cur_res)
                                  THEN "True" ELSE "False"]
    /\ UNCHANGED <<objective, value, optimizer, ls, hc, computeCalls, pot, tab, cm, comm, cfg>>

NextFloat ==
    \/ FloatOptimizeEnter
    \/ FloatOptimizeWhile
    \/ FloatOptimizeUpdate
    \/ FloatOptimizeLineSearch
    \/ FloatOptimizeRecycle
    \/ FloatOptimizeReturn

SpecFloat == InitFloat /\ [][NextFloat]_vars

\* the interval handed to find: the current result and the updated result
IntervalHanded == opt.pc = "line_search"

NonDegenerate ==
    \E k \in KeySet(objective.dvars) :
        opt.next_res.design_variables[k] # opt.cur_res.design_variables[k]

\* C29: for unbounded design variables, every interval (current result,
\* updated result) that optimize hands to find has different ends, and find
\* never raises ValueError inside optimize.
C29_FindNeverRaisesInOptimize ==
    /\ IntervalHanded => NonDegenerate
    /\ opt.pc # "raised"
    /\ ls # NoFrame => ls.pc # "raised"

============================================================================
